---- MODULE Spec2Model ----
(***************************************************************************)
(* Comparison rule engine of ExcelTrans (backend/intelligence/rule_engine): *)
(* composite keys, row matching, change detection, rule execution and the  *)
(* request flow that validates a template before executing it.             *)
(*                                                                         *)
(* Text is a sequence of one-character strings.  A cell value is a record  *)
(* [t, s]: t = "absent" (the mapping has no such field), "none" (null) or  *)
(* "str" (text s).                                                         *)
(***************************************************************************)
EXTENDS Integers, Sequences, FiniteSets, TLC

VARIABLES
    pc,             \* position of the call that is being executed
    r1, r2,         \* make_key: the two records
    key1, key2,     \* make_key: their composite keys
    rows_a, rows_b, \* record sets A and B (sequences of records)
    key_fields,     \* column_mapping.unique_key
    threshold,      \* fuzzy_threshold, a rational <<num, den>>
    matched_pairs,  \* sequence of <<i, j>> (1-based row positions)
    only_in_a, only_in_b,   \* ascending sequences of unmatched positions
    warnings,       \* [duplicate_keys_a, duplicate_keys_b], 0 = entry absent
    used_b,         \* fuzzy_match: B positions already paired
    loop_i,         \* position of the running loop
    fz_log,         \* fuzzy_match: per A record, what the pass saw and chose
    template,       \* the ComparisonTemplate given to execute_template
    result_rows,    \* execute_template: the rows built so far
    exec_error,     \* the exception that left execute_template, or "none"
    result,         \* what execute_template returned
    request,        \* process: the JSON body of the request
    sessions,       \* process: the session store, session id -> session
    response,       \* process: the HTTP response, status 0 while none is sent
    calls,          \* process: validate_template / execute_template calls so far
    ai_response,    \* parse_rule_from_ai: the text the AI answered
    ai_result,      \* parse_rule_from_ai: the (rule, error) pair it returned
    fn_in,          \* a single function call: its arguments
    fn_out,         \* a single function call: what it returned
    threads,        \* session store: per thread, its position and local session
    now,            \* session store: time.time(), in seconds
    evicted         \* session store: the session ids the cleanup thread evicted

matchVars == <<rows_a, rows_b, key_fields, threshold, matched_pairs,
               only_in_a, only_in_b, warnings, used_b, loop_i, fz_log>>
matchIn == <<rows_a, rows_b, key_fields, threshold>>
matchOut == <<matched_pairs, only_in_a, only_in_b, warnings>>
fuzzyAux == <<used_b, fz_log>>
keyVars == <<r1, r2, key1, key2>>
execVars == <<template, result_rows, exec_error, result>>
procVars == <<request, sessions, response, calls, ai_response, ai_result>>
callVars == <<fn_in, fn_out>>
storeVars == <<threads, now, evicted>>
vars == <<pc, keyVars, matchVars, execVars, procVars, callVars, storeVars>>

-----------------------------------------------------------------------------
(* Bounds of the model *)

MaxKeyLen == 1      \* longest text of a key cell in the make_key check
MaxRows == 2        \* most records per record set
MaxExecRows == 1    \* most records per record set given to execute_template
MaxRules == 2       \* most rules of a template

-----------------------------------------------------------------------------
(* Text and cell values *)

Absent == [t |-> "absent", s |-> <<>>]
None == [t |-> "none", s |-> <<>>]
Text(s) == [t |-> "str", s |-> s]

SeqsUpTo(S, n) == UNION {[1..k -> S] : k \in 0..n}

SEP == "|"

\* str.lower() on one character and on a text
LowerChar(c) ==
    CASE c = "A" -> "a" [] c = "B" -> "b" [] c = "N" -> "n" [] c = "X" -> "x"
      [] OTHER -> c
Lower(s) == [i \in 1..Len(s) |-> LowerChar(s[i])]

\* str.strip(): leading and trailing blanks removed
RECURSIVE LStrip(_)
LStrip(s) == IF s # <<>> /\ Head(s) = " " THEN LStrip(Tail(s)) ELSE s
RECURSIVE RStrip(_)
RStrip(s) ==
    IF s # <<>> /\ s[Len(s)] = " " THEN RStrip(SubSeq(s, 1, Len(s) - 1)) ELSE s
Strip(s) == RStrip(LStrip(s))

\* str(val) of a cell that is not None
Str(v) == v.s

\* '|'.join(parts)
RECURSIVE Join(_)
Join(parts) ==
    IF parts = <<>> THEN <<>>
    ELSE IF Len(parts) = 1 THEN parts[1]
    ELSE parts[1] \o <<SEP>> \o Join(Tail(parts))

\* row.get(field, default)
Get(row, field, default) ==
    IF field \in DOMAIN row /\ row[field].t # "absent" THEN row[field] ELSE default

-----------------------------------------------------------------------------
(* row_matcher.make_key *)

\* one part of the key: str(val).strip().lower() if val is not None else ''
KeyPartNoLower(row, field) ==
    LET val == Get(row, field, Text(<<>>))
    IN  IF val.t # "none" THEN Strip(Str(val)) ELSE <<>>

KeyPart(row, field) ==
    LET val == Get(row, field, Text(<<>>))
    IN  IF val.t # "none" THEN Lower(Strip(Str(val))) ELSE <<>>

make_key(row, K) == Join([i \in 1..Len(K) |-> KeyPart(row, K[i])])

-----------------------------------------------------------------------------
(* Idle values of the variables a specification does not use *)

IdleKey == r1 = <<>> /\ r2 = <<>> /\ key1 = <<>> /\ key2 = <<>>
IdleMatch ==
    /\ rows_a = <<>> /\ rows_b = <<>>
    /\ threshold = <<0, 1>>
    /\ matched_pairs = <<>> /\ only_in_a = <<>> /\ only_in_b = <<>>
    /\ warnings = [duplicate_keys_a |-> 0, duplicate_keys_b |-> 0]
    /\ used_b = {} /\ loop_i = 0 /\ fz_log = <<>>
NoResult == [returned |-> FALSE, rows |-> <<>>,
             summary |-> [total |-> 0, additions |-> 0, deletions |-> 0,
                          changes |-> 0, unchanged |-> 0],
             warnings |-> [duplicate_keys_a |-> 0, duplicate_keys_b |-> 0]]
IdleExec ==
    /\ template = <<>> /\ result_rows = <<>> /\ exec_error = "none"
    /\ result = NoResult
NoRequest == [has_body |-> FALSE, session_id |-> "", template |-> <<>>,
              dry_run |-> FALSE]
NoResponse == [status |-> 0, body |-> "none"]
NoAiResult == [returned |-> FALSE, ok |-> FALSE, rule |-> <<>>, error |-> "none"]
IdleCall == fn_in = <<>> /\ fn_out = <<>>
IdleStore == threads = <<>> /\ now = 0 /\ evicted = {}
IdleProc ==
    /\ IdleStore
    /\ request = NoRequest /\ sessions = <<>> /\ response = NoResponse
    /\ calls = <<>> /\ ai_response = <<>> /\ ai_result = NoAiResult

-----------------------------------------------------------------------------
(* SpecKey: make_key applied to two records under one key field list *)

KeyChars == {"a", "A", " ", SEP}
KeyCells == {Absent, None} \cup {Text(s) : s \in SeqsUpTo(KeyChars, MaxKeyLen)}
KeyFieldNames == {"id", "name"}
KeyRecords == [KeyFieldNames -> KeyCells]
KeyLists == {<<>>, <<"id">>, <<"id", "name">>}

InitKey ==
    /\ pc = "key_start"
    /\ r1 \in KeyRecords /\ r2 \in KeyRecords
    /\ key_fields \in KeyLists
    /\ key1 = <<>> /\ key2 = <<>>
    /\ IdleMatch /\ IdleExec /\ IdleProc /\ IdleCall

MakeKeys ==
    /\ pc = "key_start"
    /\ key1' = make_key(r1, key_fields)
    /\ key2' = make_key(r2, key_fields)
    /\ pc' = "key_done"
    /\ UNCHANGED <<r1, r2, matchVars, execVars, procVars, callVars, storeVars>>

NextKey == MakeKeys
SpecKey == InitKey /\ [][NextKey]_vars

\* the stringified, trimmed, lower-cased value of one key field
NormCell(row, field) ==
    LET v == row[field]
    IN  IF v.t \in {"absent", "none"} THEN <<>>
        ELSE [i \in 1..Len(Strip(v.s)) |-> LowerChar(Strip(v.s)[i])]

AllFieldsAgree ==
    \A i \in 1..Len(key_fields) :
        NormCell(r1, key_fields[i]) = NormCell(r2, key_fields[i])

HasSep(s) == \E i \in 1..Len(s) : s[i] = SEP
NoSepInKeyCells ==
    \A i \in 1..Len(key_fields) :
        /\ ~HasSep(NormCell(r1, key_fields[i]))
        /\ ~HasSep(NormCell(r2, key_fields[i]))

\* C3 (as stated): the composite keys of two records are equal if and only
\* if every key field's stringified, trimmed, lower-cased value agrees,
\* whatever characters the values contain.
C3_KeyEqualIffFieldsAgree ==
    pc = "key_done" => ((key1 = key2) <=> AllFieldsAgree)

\* C3 (amended): agreeing fields always give equal keys; equal keys give
\* agreeing fields provided no normalized key value contains the separator
\* "|" that make_key joins the parts with.
C3_KeyEqualIffFieldsAgreeNoSep ==
    pc = "key_done" =>
        /\ AllFieldsAgree => key1 = key2
        /\ (NoSepInKeyCells /\ key1 = key2) => AllFieldsAgree

\* C3 witness: two separator-free records that differ in case, in blanks and
\* in null against blank only were given the same two-field key.
C3_Witness ==
    /\ pc = "key_done"
    /\ Len(key_fields) = 2
    /\ NoSepInKeyCells
    /\ r1 # r2
    /\ r1["id"] = Text(<<"A">>) /\ r2["id"] = Text(<<"a">>)
    /\ r1["name"] = Text(<<" ">>) /\ r2["name"] = None
    /\ key1 = key2

-----------------------------------------------------------------------------
(* row_matcher.build_key_index and row_matcher.exact_match.                 *)
(* Row positions are 1-based: position i is Python index i - 1.             *)

\* The loops over a whole record set are evaluated by halves (the first half
\* of the range, then the second), which gives what the loop gives position
\* after position and keeps the evaluation shallow on sets of
\* FUZZY_ROW_LIMIT rows.

\* the positions i..n outside S, highest first
RECURSIVE PositionsNotInDescending(_, _, _)
PositionsNotInDescending(i, n, S) ==
    IF i > n THEN <<>>
    ELSE (IF n \notin S THEN <<n>> ELSE <<>>) \o PositionsNotInDescending(i, n - 1, S)

\* [i for i in range(i, n) if i not in S]: the positions i..n outside S, ascending
RECURSIVE PositionsNotIn(_, _, _)
PositionsNotIn(i, n, S) ==
    IF i > n THEN <<>>
    ELSE IF i = n THEN (IF i \notin S THEN <<i>> ELSE <<>>)
    ELSE PositionsNotIn(i, (i + n) \div 2, S)
             \o PositionsNotIn((i + n) \div 2 + 1, n, S)

Range(s) == {s[i] : i \in 1..Len(s)}

\* the loop of build_key_index over positions lo..hi: a key keeps the first
\* position that carries it, every later record with that key is a duplicate
RECURSIVE KeyIndexFrom(_, _, _, _)
KeyIndexFrom(rows, K, lo, hi) ==
    IF lo > hi THEN [index |-> <<>>, duplicates |-> 0]
    ELSE IF lo = hi
    THEN [index |-> make_key(rows[lo], K) :> lo, duplicates |-> 0]
    ELSE LET first == KeyIndexFrom(rows, K, lo, (lo + hi) \div 2)
             rest == KeyIndexFrom(rows, K, (lo + hi) \div 2 + 1, hi)
         IN  [index |-> first.index @@ rest.index,
              duplicates |-> first.duplicates + rest.duplicates
                  + Cardinality(DOMAIN first.index \cap DOMAIN rest.index)]

\* (index, duplicate_count): index maps a composite key to its first position
build_key_index(rows, K) == KeyIndexFrom(rows, K, 1, Len(rows))

\* the pairing loop of exact_match over positions lo..hi of rows_a
RECURSIVE ExactPairsFrom(_, _, _, _, _)
ExactPairsFrom(ra, K, index_b, lo, hi) ==
    IF lo > hi THEN <<>>
    ELSE IF lo = hi
    THEN LET key == make_key(ra[lo], K)
         IN  IF key \in DOMAIN index_b THEN <<(<<lo, index_b[key]>>)>> ELSE <<>>
    ELSE ExactPairsFrom(ra, K, index_b, lo, (lo + hi) \div 2)
             \o ExactPairsFrom(ra, K, index_b, (lo + hi) \div 2 + 1, hi)

ExactPairs(ra, rb, K) ==
    ExactPairsFrom(ra, K, build_key_index(rb, K).index, 1, Len(ra))

\* only_in_a: the positions of rows_a that are in no pair
ExactOnlyA(ra, pairs) ==
    LET matched_a_indices == {p[1] : p \in Range(pairs)}
    IN  PositionsNotIn(1, Len(ra), matched_a_indices)

\* a variant that lists a B record as unmatched when no A record has its key
ExactOnlyBByKey(ra, rb, K, pairs) ==
    LET keys_of_a == {make_key(ra[i], K) : i \in 1..Len(ra)}
        has_key_in_a == {j \in 1..Len(rb) : make_key(rb[j], K) \in keys_of_a}
    IN  PositionsNotIn(1, Len(rb), has_key_in_a)

\* only_in_b: the positions of rows_b that are in no pair
ExactOnlyB(ra, rb, K, pairs) ==
    LET matched_b_indices == {p[2] : p \in Range(pairs)}
    IN  PositionsNotIn(1, Len(rb), matched_b_indices)

\* the warnings dict: an entry is present only when its count is not 0
ExactWarnings(ra, rb, K) ==
    [duplicate_keys_a |-> build_key_index(ra, K).duplicates,
     duplicate_keys_b |-> build_key_index(rb, K).duplicates]

exact_match(ra, rb, K) ==
    LET pairs == ExactPairs(ra, rb, K)
    IN  [matched_pairs |-> pairs,
         only_in_a |-> ExactOnlyA(ra, pairs),
         only_in_b |-> ExactOnlyB(ra, rb, K, pairs),
         warnings |-> ExactWarnings(ra, rb, K)]

-----------------------------------------------------------------------------
(* SpecExact: exact_match applied to two record sets *)

MatchIds == {Text(<<"a">>), Text(<<"A">>), Text(<<"b">>)}
MatchNames == {Text(<<"a">>), Absent}
MatchRecords == {[id |-> i, name |-> n] : i \in MatchIds, n \in MatchNames}
MatchKeyLists == {<<"id">>, <<"id", "name">>}

InitExact ==
    /\ pc = "exact_start"
    /\ IdleKey /\ IdleExec /\ IdleProc /\ IdleCall
    /\ rows_a \in SeqsUpTo(MatchRecords, MaxRows)
    /\ rows_b \in SeqsUpTo(MatchRecords, MaxRows)
    /\ key_fields \in MatchKeyLists
    /\ threshold = <<0, 1>>
    /\ matched_pairs = <<>> /\ only_in_a = <<>> /\ only_in_b = <<>>
    /\ warnings = [duplicate_keys_a |-> 0, duplicate_keys_b |-> 0]
    /\ used_b = {} /\ loop_i = 0 /\ fz_log = <<>>

ExactMatch ==
    /\ pc = "exact_start"
    /\ LET m == exact_match(rows_a, rows_b, key_fields)
       IN  /\ matched_pairs' = m.matched_pairs
           /\ only_in_a' = m.only_in_a
           /\ only_in_b' = m.only_in_b
           /\ warnings' = m.warnings
    /\ pc' = "exact_done"
    /\ UNCHANGED <<procVars, keyVars, callVars, storeVars, execVars, rows_a, rows_b, key_fields, threshold,
                   used_b, loop_i, fz_log>>

NextExact == ExactMatch
SpecExact == InitExact /\ [][NextExact]_vars

PairedA == {p[1] : p \in Range(matched_pairs)}
PairedB == {p[2] : p \in Range(matched_pairs)}

\* C1: the A positions in pairs together with only_a are exactly the
\* positions of A, the B positions in pairs together with only_b are exactly
\* the positions of B, and no position is both paired and unmatched.
C1_ExactPartition ==
    pc = "exact_done" =>
        /\ PairedA \cup Range(only_in_a) = 1..Len(rows_a)
        /\ PairedB \cup Range(only_in_b) = 1..Len(rows_b)
        /\ PairedA \cap Range(only_in_a) = {}
        /\ PairedB \cap Range(only_in_b) = {}

\* C1 witness: a run with a pair, an unmatched A record and an unmatched B
\* record, the unmatched B record repeating the key of the paired one.
C1_Witness ==
    /\ pc = "exact_done"
    /\ matched_pairs # <<>> /\ only_in_a # <<>> /\ only_in_b # <<>>
    /\ \E j \in Range(only_in_b), q \in PairedB :
           make_key(rows_b[j], key_fields) = make_key(rows_b[q], key_fields)

RepeatsEarlierKey(rows, i) ==
    \E h \in 1..(i - 1) :
        make_key(rows[h], key_fields) = make_key(rows[i], key_fields)

\* C2: a record whose composite key repeats the key of an earlier record of
\* its own set is in no pair, so no B record is paired with two A records.
C2_OnlyFirstOccurrenceMatchable ==
    pc = "exact_done" =>
        /\ \A p \in Range(matched_pairs) :
               /\ ~RepeatsEarlierKey(rows_a, p[1])
               /\ ~RepeatsEarlierKey(rows_b, p[2])
        /\ \A p, q \in Range(matched_pairs) : p[2] = q[2] => p[1] = q[1]

-----------------------------------------------------------------------------
(* difflib.SequenceMatcher(None, a, b).ratio(), as row_matcher.fuzzy_match  *)
(* calls it: no junk, and autojunk never applies to texts this short.       *)
(* A score is the rational <<numerator, denominator>>.                      *)

\* the blocks a[i+1..i+k] = b[j+1..j+k] inside a[alo+1..ahi], b[blo+1..bhi]
MatchingBlocks(a, alo, ahi, b, blo, bhi) ==
    {c \in (alo..ahi) \X (blo..bhi) \X (1..Len(a)) :
        /\ c[1] + c[3] <= ahi
        /\ c[2] + c[3] <= bhi
        /\ \A t \in 1..c[3] : a[c[1] + t] = b[c[2] + t]}

\* find_longest_match: the longest block, the earliest in a, then in b
LongestMatch(a, alo, ahi, b, blo, bhi) ==
    LET blocks == MatchingBlocks(a, alo, ahi, b, blo, bhi)
    IN  IF blocks = {} THEN <<alo, blo, 0>>
        ELSE CHOOSE c \in blocks : \A d \in blocks :
                \/ c[3] > d[3]
                \/ c[3] = d[3] /\ c[1] < d[1]
                \/ c[3] = d[3] /\ c[1] = d[1] /\ c[2] <= d[2]

\* get_matching_blocks: characters matched, left and right of the longest block
RECURSIVE Matched(_, _, _, _, _, _)
Matched(a, alo, ahi, b, blo, bhi) ==
    LET m == LongestMatch(a, alo, ahi, b, blo, bhi)
    IN  IF m[3] = 0 THEN 0
        ELSE m[3] + Matched(a, alo, m[1], b, blo, m[2])
                  + Matched(a, m[1] + m[3], ahi, b, m[2] + m[3], bhi)

\* ratio() = 2.0 * matches / (len(a) + len(b)), and 1.0 for two empty texts
ratio(a, b) ==
    IF Len(a) + Len(b) = 0 THEN <<1, 1>>
    ELSE <<2 * Matched(a, 0, Len(a), b, 0, Len(b)), Len(a) + Len(b)>>

\* x > y, x = y on scores
Gt(x, y) == x[1] * y[2] > y[1] * x[2]
Eq(x, y) == x[1] * y[2] = y[1] * x[2]

-----------------------------------------------------------------------------
(* row_matcher.fuzzy_match *)

FUZZY_ROW_LIMIT == 2000

KeysOf(rows, K) == [i \in 1..Len(rows) |-> make_key(rows[i], K)]

\* keys_b_index = {key: j for j, key in enumerate(keys_b)}: the last position wins;
\* 0 stands for keys_b_index.get(key) returning None
KeysBIndexGet(keys_b, key) ==
    LET hits == {j \in 1..Len(keys_b) : keys_b[j] = key}
    IN  IF hits = {} THEN 0 ELSE CHOOSE j \in hits : \A h \in hits : h <= j

\* a fallback scan that also accepts a score equal to the best so far
RECURSIVE FuzzyScanGe(_, _, _, _, _, _)
FuzzyScanGe(key_a, keys_b, used, j, best_score, best_j) ==
    IF j > Len(keys_b) THEN best_j
    ELSE IF j \in used
         THEN FuzzyScanGe(key_a, keys_b, used, j + 1, best_score, best_j)
    ELSE LET score == ratio(key_a, keys_b[j])
         IN  IF Gt(score, best_score) \/ Eq(score, best_score)
             THEN FuzzyScanGe(key_a, keys_b, used, j + 1, score, j)
             ELSE FuzzyScanGe(key_a, keys_b, used, j + 1, best_score, best_j)

\* the fuzzy fallback scan from B position j on; best_j = 0 stands for None
RECURSIVE FuzzyScan(_, _, _, _, _, _)
FuzzyScan(key_a, keys_b, used, j, best_score, best_j) ==
    IF j > Len(keys_b) THEN best_j
    ELSE IF j \in used
         THEN FuzzyScan(key_a, keys_b, used, j + 1, best_score, best_j)
    ELSE LET score == ratio(key_a, keys_b[j])
         IN  IF Gt(score, best_score)
             THEN FuzzyScan(key_a, keys_b, used, j + 1, score, j)
             ELSE FuzzyScan(key_a, keys_b, used, j + 1, best_score, best_j)

\* a loop body that never looks at the used B positions
FuzzyChooseIgnoringUsed(key_a, keys_b, used, thr) ==
    LET j == KeysBIndexGet(keys_b, key_a)
    IN  [exact |-> j # 0,
         j |-> IF j # 0 THEN j ELSE FuzzyScan(key_a, keys_b, {}, 1, thr, 0)]

\* lines 110-130, the body of the loop over keys_a: the B position paired with
\* key_a (0 for none) and whether the exact lookup gave it
FuzzyChoose(key_a, keys_b, used, thr) ==
    LET j == KeysBIndexGet(keys_b, key_a)
        exact == j # 0 /\ j \notin used
    IN  [exact |-> exact,
         j |-> IF exact THEN j ELSE FuzzyScan(key_a, keys_b, used, 1, thr, 0)]

\* the loop over keys_a from position i on: the pairs made
RECURSIVE FuzzyPairsFrom(_, _, _, _, _, _)
FuzzyPairsFrom(keys_a, keys_b, thr, i, pairs, used) ==
    IF i > Len(keys_a) THEN pairs
    ELSE LET c == FuzzyChoose(keys_a[i], keys_b, used, thr)
         IN  IF c.j # 0
             THEN FuzzyPairsFrom(keys_a, keys_b, thr, i + 1,
                                 Append(pairs, <<i, c.j>>), used \cup {c.j})
             ELSE FuzzyPairsFrom(keys_a, keys_b, thr, i + 1, pairs, used)

\* a size test that already rejects a set of exactly FUZZY_ROW_LIMIT rows
RowCeilingReached(ra, rb) == Len(ra) >= FUZZY_ROW_LIMIT \/ Len(rb) >= FUZZY_ROW_LIMIT

\* line 95: len(rows_a) > FUZZY_ROW_LIMIT or len(rows_b) > FUZZY_ROW_LIMIT
RowCeilingExceeded(ra, rb) == Len(ra) > FUZZY_ROW_LIMIT \/ Len(rb) > FUZZY_ROW_LIMIT

\* fuzzy_match as one call; raised: the row ceiling was exceeded (ValueError)
fuzzy_match(ra, rb, K, thr) ==
    IF RowCeilingExceeded(ra, rb)
    THEN [raised |-> TRUE, matched_pairs |-> <<>>, only_in_a |-> <<>>,
          only_in_b |-> <<>>,
          warnings |-> [duplicate_keys_a |-> 0, duplicate_keys_b |-> 0]]
    ELSE LET pairs == FuzzyPairsFrom(KeysOf(ra, K), KeysOf(rb, K), thr, 1, <<>>, {})
         IN  [raised |-> FALSE,
              matched_pairs |-> pairs,
              only_in_a |-> PositionsNotIn(1, Len(ra), {p[1] : p \in Range(pairs)}),
              only_in_b |-> PositionsNotIn(1, Len(rb), {p[2] : p \in Range(pairs)}),
              warnings |-> [duplicate_keys_a |-> 0, duplicate_keys_b |-> 0]]

\* lines 93-107: the size check, the keys, the empty result
FuzzyStart ==
    /\ pc = "fuzzy_start"
    /\ IF RowCeilingExceeded(rows_a, rows_b)
       THEN pc' = "fuzzy_error" /\ loop_i' = loop_i
       ELSE pc' = "fuzzy_loop" /\ loop_i' = 1
    /\ matched_pairs' = <<>>
    /\ used_b' = {}
    /\ warnings' = [duplicate_keys_a |-> 0, duplicate_keys_b |-> 0]
    /\ UNCHANGED <<procVars, keyVars, callVars, storeVars, execVars, rows_a, rows_b, key_fields, threshold,
                   only_in_a, only_in_b, fz_log>>

\* lines 109-130: one iteration of the loop over keys_a
FuzzyStep ==
    /\ pc = "fuzzy_loop"
    /\ loop_i <= Len(rows_a)
    /\ LET c == FuzzyChoose(make_key(rows_a[loop_i], key_fields),
                            KeysOf(rows_b, key_fields), used_b, threshold)
       IN  /\ matched_pairs' = IF c.j # 0
                               THEN Append(matched_pairs, <<loop_i, c.j>>)
                               ELSE matched_pairs
           /\ used_b' = IF c.j # 0 THEN used_b \cup {c.j} ELSE used_b
           /\ fz_log' = Append(fz_log, [used |-> used_b, exact |-> c.exact])
    /\ loop_i' = loop_i + 1
    /\ UNCHANGED <<pc, procVars, keyVars, callVars, storeVars, execVars, rows_a, rows_b, key_fields, threshold,
                   only_in_a, only_in_b, warnings>>

\* lines 132-138: the unmatched lists and the return
FuzzyFinish ==
    /\ pc = "fuzzy_loop"
    /\ loop_i > Len(rows_a)
    /\ only_in_a' = PositionsNotIn(1, Len(rows_a), {p[1] : p \in Range(matched_pairs)})
    /\ only_in_b' = PositionsNotIn(1, Len(rows_b), {p[2] : p \in Range(matched_pairs)})
    /\ pc' = "fuzzy_done"
    /\ UNCHANGED <<procVars, keyVars, callVars, storeVars, execVars, rows_a, rows_b, key_fields, threshold,
                   matched_pairs, warnings, used_b, loop_i, fz_log>>

-----------------------------------------------------------------------------
(* SpecFuzzy: fuzzy_match applied to two record sets *)

FuzzyIds == {<<"a", "b">>, <<"a", "c">>, <<"a", "b", "c">>, <<"b", "a">>}
FuzzyRecords == {[id |-> Text(i), name |-> Absent] : i \in FuzzyIds}
\* thresholds 0.0, 0.5, the default 0.8, and 1.0
FuzzyThresholds == {<<0, 1>>, <<1, 2>>, <<4, 5>>, <<1, 1>>}

InitFuzzy ==
    /\ pc = "fuzzy_start"
    /\ IdleKey /\ IdleExec /\ IdleProc /\ IdleCall
    /\ rows_a \in SeqsUpTo(FuzzyRecords, MaxRows)
    /\ rows_b \in SeqsUpTo(FuzzyRecords, MaxRows)
    /\ key_fields = <<"id">>
    /\ threshold \in FuzzyThresholds
    /\ matched_pairs = <<>> /\ only_in_a = <<>> /\ only_in_b = <<>>
    /\ warnings = [duplicate_keys_a |-> 0, duplicate_keys_b |-> 0]
    /\ used_b = {} /\ loop_i = 0 /\ fz_log = <<>>

NextFuzzy == FuzzyStart \/ FuzzyStep \/ FuzzyFinish
SpecFuzzy == InitFuzzy /\ [][NextFuzzy]_vars

\* the score of A record i against B record j
Score(i, j) == ratio(make_key(rows_a[i], key_fields), make_key(rows_b[j], key_fields))

\* the B positions that were unused when A record i was processed and score
\* strictly above the threshold
Qualifying(i) ==
    {j \in (1..Len(rows_b)) \ fz_log[i].used : Gt(Score(i, j), threshold)}

PairsOf(i) == {p \in Range(matched_pairs) : p[1] = i}

\* C10: an A record without exact-key hit is paired with the unused B record
\* of highest score among those strictly above the threshold, the lowest B
\* position winning among equal highest scores, and is left unmatched when
\* no unused B record scores strictly above the threshold.
C10_FuzzyPicksBestAboveThreshold ==
    \A i \in 1..Len(fz_log) :
        ~fz_log[i].exact =>
            IF Qualifying(i) = {} THEN PairsOf(i) = {}
            ELSE \E j \in Qualifying(i) :
                    /\ PairsOf(i) = {<<i, j>>}
                    /\ \A h \in Qualifying(i) :
                           /\ ~Gt(Score(i, h), Score(i, j))
                           /\ Eq(Score(i, h), Score(i, j)) => j <= h

\* C10 witness: the pass is over; one A record without exact hit was paired
\* with the lower of two unused B records of equal highest score, and another
\* was left unmatched although an unused B record scored exactly the threshold.
C10_Witness ==
    /\ pc = "fuzzy_done"
    /\ \E i \in 1..Len(fz_log) :
           /\ ~fz_log[i].exact
           /\ \E j, h \in Qualifying(i) :
                  /\ j < h /\ Eq(Score(i, j), Score(i, h))
                  /\ PairsOf(i) = {<<i, j>>}
    /\ \E i \in 1..Len(fz_log) :
           /\ ~fz_log[i].exact
           /\ PairsOf(i) = {}
           /\ \E j \in (1..Len(rows_b)) \ fz_log[i].used : Eq(Score(i, j), threshold)

\* the unused B positions whose composite key is that of A record i
UnusedOfSameKey(i) ==
    {j \in (1..Len(rows_b)) \ fz_log[i].used :
        make_key(rows_b[j], key_fields) = make_key(rows_a[i], key_fields)}

\* C24: the exact-key lookup is made against the unused B records: an A
\* record processed while some not-yet-used B record has its composite key is
\* paired with a B record of that key, whatever the threshold and also when B
\* repeats keys.
C24_ExactLookupAmongUnused ==
    \A i \in 1..Len(fz_log) :
        UnusedOfSameKey(i) # {} =>
            \E j \in 1..Len(rows_b) :
                /\ PairsOf(i) = {<<i, j>>}
                /\ make_key(rows_b[j], key_fields) = make_key(rows_a[i], key_fields)

-----------------------------------------------------------------------------
(* SpecSize: fuzzy_match or exact_match on record sets at the row ceiling *)

SizeRecord == [id |-> Text(<<"a">>), name |-> Absent]
RowsOfSize(n) == [k \in 1..n |-> SizeRecord]

\* <<len(rows_a), len(rows_b)>>: below, at and one above the ceiling
SizePairs ==
    {<<0, 0>>, <<1, 1>>,
     <<FUZZY_ROW_LIMIT, 0>>, <<FUZZY_ROW_LIMIT, 1>>, <<1, FUZZY_ROW_LIMIT>>,
     <<FUZZY_ROW_LIMIT + 1, 0>>, <<0, FUZZY_ROW_LIMIT + 1>>,
     <<FUZZY_ROW_LIMIT + 1, 1>>, <<FUZZY_ROW_LIMIT + 1, FUZZY_ROW_LIMIT + 1>>}

InitSize ==
    /\ pc \in {"fuzzy_start", "exact_start"}
    /\ IdleKey /\ IdleExec /\ IdleProc /\ IdleCall
    /\ \E sz \in SizePairs : rows_a = RowsOfSize(sz[1]) /\ rows_b = RowsOfSize(sz[2])
    /\ key_fields = <<"id">>
    /\ threshold = <<4, 5>>
    /\ matched_pairs = <<>> /\ only_in_a = <<>> /\ only_in_b = <<>>
    /\ warnings = [duplicate_keys_a |-> 0, duplicate_keys_b |-> 0]
    /\ used_b = {} /\ loop_i = 0 /\ fz_log = <<>>

NextSize == FuzzyStart \/ FuzzyStep \/ FuzzyFinish \/ ExactMatch
SpecSize == InitSize /\ [][NextSize]_vars

TooLarge == Len(rows_a) > FUZZY_ROW_LIMIT \/ Len(rows_b) > FUZZY_ROW_LIMIT

\* C11: fuzzy_match on a record set larger than FUZZY_ROW_LIMIT fails before
\* any pairing step and returns nothing; with both sets within the ceiling it
\* is never rejected for size; exact_match is never rejected for size.
C11_RowCeiling ==
    /\ (TooLarge /\ pc \notin {"fuzzy_start", "exact_start", "exact_done"}) =>
           /\ pc = "fuzzy_error"
           /\ matched_pairs = <<>> /\ only_in_a = <<>> /\ only_in_b = <<>>
           /\ fz_log = <<>> /\ used_b = {}
    /\ ~TooLarge => pc # "fuzzy_error"
    /\ pc = "exact_done" =>
           /\ PairedA \cup Range(only_in_a) = 1..Len(rows_a)
           /\ PairedB \cup Range(only_in_b) = 1..Len(rows_b)

\* C11 witness: fuzzy_match was given FUZZY_ROW_LIMIT + 1 records of A and
\* one record of B with the same key, and failed without pairing them.
C11_Witness ==
    /\ pc = "fuzzy_error"
    /\ Len(rows_a) = FUZZY_ROW_LIMIT + 1 /\ Len(rows_b) = 1
    /\ matched_pairs = <<>>

-----------------------------------------------------------------------------
(* change_detector: _normalize, _is_empty, fields_changed,                  *)
(* evaluate_condition, evaluate_conditions, resolve_outcome_label.          *)
(* A record is a function from field names to cells and always has a field; *)
(* NoRow stands for a row argument that is None.  A float cell carries its  *)
(* str() text in s ("3.0", "2.5", "nan", "inf").                            *)

NoRow == <<>>
Float(s) == [t |-> "float", s |-> s]

\* dict.get(key, default) on a config mapping
DictGet(d, k, default) == IF k \in DOMAIN d THEN d[k] ELSE default

\* row.get(field) if row else None
RowGet(row, field) ==
    IF field \in DOMAIN row /\ row[field].t # "absent" THEN row[field] ELSE None

IsWholeFloat(v) ==
    /\ v.t = "float" /\ Len(v.s) >= 3
    /\ v.s[Len(v.s) - 1] = "." /\ v.s[Len(v.s)] = "0"

\* _normalize(val)
Normalize(val) ==
    IF val.t = "none" THEN <<>>
    ELSE IF val.t = "float" /\ val.s \in {<<"nan">>, <<"inf">>} THEN <<>>
    ELSE IF IsWholeFloat(val) THEN SubSeq(val.s, 1, Len(val.s) - 2)
    ELSE Strip(Str(val))

\* an emptiness test that takes only None for empty
IsEmptyNoneOnly(val) == val.t = "none"

\* _is_empty(val)
IsEmpty(val) == val.t = "none" \/ Strip(Str(val)) = <<>>

\* str(val or ''): a falsy value (None, '', 0.0) gives ''
StrOrEmpty(val) ==
    IF val.t = "none" \/ val.s = <<>> \/ (val.t = "float" /\ val.s = <<"0", ".", "0">>)
    THEN <<>> ELSE Str(val)

\* str(cond_value): None prints as 'None'
StrPy(val) == IF val.t = "none" THEN <<"N", "o", "n", "e">> ELSE Str(val)

\* a loop that reports a field only when the first record has a value for it
FieldsChangedWhereFirstHasValue(row_a, row_b, fields) ==
    SelectSeq(fields, LAMBDA f : /\ Normalize(RowGet(row_a, f)) # Normalize(RowGet(row_b, f))
                                 /\ Normalize(RowGet(row_a, f)) # <<>>)

\* the loop of fields_changed
RECURSIVE FieldsChangedIn(_, _, _)
FieldsChangedIn(row_a, row_b, fields) ==
    IF fields = <<>> THEN <<>>
    ELSE LET f == Head(fields)
         IN  (IF Normalize(RowGet(row_a, f)) # Normalize(RowGet(row_b, f))
              THEN <<f>> ELSE <<>>) \o FieldsChangedIn(row_a, row_b, Tail(fields))

\* a variant that compares every column of the records, listed or not
FieldsChangedAnyField(row_a, row_b, fields) ==
    FieldsChangedIn(row_a, row_b, <<"id", "c1">>)

\* fields_changed(row_a, row_b, fields)
fields_changed(row_a, row_b, fields) == FieldsChangedIn(row_a, row_b, fields)

\* needle in hay, hay.startswith(needle)
Contains(hay, needle) ==
    \E k \in 0..(Len(hay) - Len(needle)) : SubSeq(hay, k + 1, k + Len(needle)) = needle
StartsWith(hay, needle) ==
    Len(needle) <= Len(hay) /\ SubSeq(hay, 1, Len(needle)) = needle

\* A pattern of the model is made of letters and "(": re.compile rejects it
\* (re.error, unterminated subpattern) exactly when it holds a "(", and a
\* pattern of letters is searched as a substring, ignoring case.
RegexValid(p) == \A i \in 1..Len(p) : p[i] # "("
ReSearch(p, text) == Contains(Lower(text), Lower(p))

\* _parse_date on the date texts of the model (0 stands for None); a date
\* text is one symbol, and 05/01/2024 is read day first
DateOrdinal(sym) ==
    CASE sym = "2024-01-05" -> 5 [] sym = "05/01/2024" -> 5
      [] sym = "2024-01-06" -> 6 [] OTHER -> 0
ParseDate(val) ==
    IF val.t = "str" /\ Len(Strip(val.s)) = 1 THEN DateOrdinal(Strip(val.s)[1]) ELSE 0

BoolStr(b) == IF b THEN "T" ELSE "F"

\* a choice of the current row that never falls back to row_a
CurrentRowAlwaysB(row_a, row_b) == row_b

\* line 50: current_row = row_b if row_b is not None else row_a
CurrentRowOf(row_a, row_b) == IF row_b # NoRow THEN row_b ELSE row_a

\* evaluate_condition: "T", "F", or "raise" when re.search raises re.error
evaluate_condition(row_a, row_b, condition) ==
    LET field == condition.field
        operator == condition.operator
        cond_value == DictGet(condition, "value", None)
        current_row == CurrentRowOf(row_a, row_b)
        prev_row == row_a
        current_val == RowGet(current_row, field)
        prev_val == RowGet(prev_row, field)
    IN  CASE operator = "is_empty" -> BoolStr(IsEmpty(current_val))
          [] operator = "is_not_empty" -> BoolStr(~IsEmpty(current_val))
          [] operator = "equals" ->
                BoolStr(Normalize(current_val) = Normalize(cond_value))
          [] operator = "not_equals" ->
                BoolStr(Normalize(current_val) # Normalize(cond_value))
          [] operator = "contains" ->
                BoolStr(Contains(Lower(StrOrEmpty(current_val)), Lower(StrPy(cond_value))))
          [] operator = "starts_with" ->
                BoolStr(StartsWith(Lower(StrOrEmpty(current_val)), Lower(StrPy(cond_value))))
          [] operator = "changed_from_empty" ->
                BoolStr(IsEmpty(prev_val) /\ ~IsEmpty(current_val))
          [] operator = "changed_to_empty" ->
                BoolStr(~IsEmpty(prev_val) /\ IsEmpty(current_val))
          [] operator = "date_is_before" ->
                BoolStr(ParseDate(current_val) # 0 /\ ParseDate(cond_value) # 0
                        /\ ParseDate(current_val) < ParseDate(cond_value))
          [] operator = "date_is_after" ->
                BoolStr(ParseDate(current_val) # 0 /\ ParseDate(cond_value) # 0
                        /\ ParseDate(current_val) > ParseDate(cond_value))
          [] operator = "changed_from_pattern" ->
                IF RegexValid(StrPy(cond_value))
                THEN BoolStr(ReSearch(StrPy(cond_value), StrOrEmpty(prev_val)))
                ELSE "raise"
          [] operator = "changed_to_pattern" ->
                IF RegexValid(StrPy(cond_value))
                THEN BoolStr(ReSearch(StrPy(cond_value), StrOrEmpty(current_val)))
                ELSE "raise"
          [] OTHER -> "F"

\* evaluate_conditions: every condition is evaluated before the join
evaluate_conditions(row_a, row_b, conditions, join) ==
    LET results == [i \in 1..Len(conditions) |->
                        evaluate_condition(row_a, row_b, conditions[i])]
    IN  IF \E i \in 1..Len(conditions) : results[i] = "raise" THEN "raise"
        ELSE IF join = "AND"
             THEN BoolStr(\A i \in 1..Len(conditions) : results[i] = "T")
             ELSE BoolStr(\E i \in 1..Len(conditions) : results[i] = "T")

\* A label template is a sequence of tokens: a literal word w, or a
\* placeholder {w}.  A resolved label is a text in which a literal word is
\* one symbol.
Lit(w) == <<[ph |-> FALSE, w |-> w]>>
Ph(w) == <<[ph |-> TRUE, w |-> w]>>

\* resolve_outcome_label: str(val) if val is not None else '', for row.get(field, '')
RECURSIVE resolve_outcome_label(_, _)
resolve_outcome_label(label_template, row) ==
    IF label_template = <<>> THEN <<>>
    ELSE LET tok == Head(label_template)
             val == Get(row, tok.w, Text(<<>>))
         IN  (IF ~tok.ph THEN <<tok.w>>
              ELSE IF val.t # "none" THEN Str(val) ELSE <<>>)
                 \o resolve_outcome_label(Tail(label_template), row)

-----------------------------------------------------------------------------
(* rule_executor: _evaluate_rule, _compute_output_columns,                  *)
(* _build_output_row, _build_summary.                                       *)
(* A rule is [rule_type, config, output_column]; config is a mapping whose  *)
(* keys are those the template gave.  An evaluation result is               *)
(* [st, label, color]: st = "fire" (a label), "skip" ((None, None)) or      *)
(* "raise" (an exception left the call).                                    *)

Skip == [st |-> "skip", label |-> <<>>, color |-> "None"]
Raise == [st |-> "raise", label |-> <<>>, color |-> "None"]
Fire(label, color) == [st |-> "fire", label |-> label, color |-> color]

\* a call that passes an empty change list whatever the pair's changes are
ChangedNone(fields) == [given |-> TRUE, fields |-> <<>>]

\* all_changed_fields: None, or the list execute computed for the pair
NoChanged == [given |-> FALSE, fields |-> <<>>]
Changed(fields) == [given |-> TRUE, fields |-> fields]

\* a filter that keeps every field of check_fields
FilterInAll(fields, S) == fields

\* [f for f in check_fields if f in set(all_changed_fields)]
RECURSIVE FilterIn(_, _)
FilterIn(fields, S) ==
    IF fields = <<>> THEN <<>>
    ELSE (IF Head(fields) \in S THEN <<Head(fields)>> ELSE <<>>)
             \o FilterIn(Tail(fields), S)

\* a label template returned as it is: a placeholder stays "{w}"
RECURSIVE RawLabel(_)
RawLabel(label_template) ==
    IF label_template = <<>> THEN <<>>
    ELSE (IF Head(label_template).ph THEN <<"{", Head(label_template).w, "}">>
          ELSE <<Head(label_template).w>>) \o RawLabel(Tail(label_template))

\* a PRESENCE_RULE that answers outside its two contexts with its addition label
PresenceFiresElsewhere(cfg) ==
    Fire(RawLabel(DictGet(DictGet(cfg, "only_in_file_b", <<>>), "outcome_label",
                          Lit("Addition"))), "#C6EFCE")

\* line 193: a PRESENCE_RULE in a context that is neither addition nor deletion
PresenceElsewhere(cfg) == Skip

_evaluate_rule(rule, row_a, row_b, context, compare_fields, all_changed_fields) ==
    LET rt == rule.rule_type
        cfg == rule.config
    IN  CASE rt = "PRESENCE_RULE" ->
                IF context = "addition"
                THEN LET entry == DictGet(cfg, "only_in_file_b", <<>>)
                         label == DictGet(entry, "outcome_label", Lit("Addition"))
                         color == DictGet(entry, "color", "#C6EFCE")
                     IN  Fire(IF row_b # NoRow THEN resolve_outcome_label(label, row_b)
                              ELSE RawLabel(label), color)
                ELSE IF context = "deletion"
                THEN LET entry == DictGet(cfg, "only_in_file_a", <<>>)
                         label == DictGet(entry, "outcome_label", Lit("Deletion"))
                         color == DictGet(entry, "color", "#FFC7CE")
                     IN  Fire(IF row_a # NoRow THEN resolve_outcome_label(label, row_a)
                              ELSE RawLabel(label), color)
                ELSE PresenceElsewhere(cfg)
          [] rt = "CHANGE_RULE" ->
                IF context # "matched" THEN Skip
                ELSE LET given == DictGet(cfg, "fields", compare_fields)
                         check_fields == IF given # <<>> THEN given ELSE compare_fields
                         changed ==
                             IF all_changed_fields.given
                             THEN FilterIn(check_fields, Range(all_changed_fields.fields))
                             ELSE IF row_a # NoRow /\ row_b # NoRow
                                  THEN fields_changed(row_a, row_b, check_fields)
                                  ELSE <<>>
                     IN  IF changed # <<>>
                         THEN Fire(RawLabel(DictGet(cfg, "outcome_label", Lit("Changed"))),
                                   DictGet(cfg, "color", "#FFEB9C"))
                         ELSE Skip
          [] rt = "CONDITION_RULE" ->
                LET conditions == DictGet(cfg, "conditions", <<>>)
                    join == DictGet(cfg, "condition_join", "AND")
                    holds == evaluate_conditions(row_a, row_b, conditions, join)
                    active_row == IF row_b # NoRow THEN row_b ELSE row_a
                IN  IF holds = "raise" THEN Raise
                    ELSE IF holds = "T"
                    THEN Fire(resolve_outcome_label(
                                  DictGet(cfg, "outcome_label", Lit("Flagged")), active_row),
                              DictGet(cfg, "color", "#FFC7CE"))
                    ELSE Skip
          [] OTHER -> Skip

\* col_name = rule.output_column or 'Remarks'
ColName(rule) == IF rule.output_column # "" THEN rule.output_column ELSE "Remarks"

\* a loop in which a later rule overwrites the column of an earlier one
RECURSIVE ComputeFromLastWins(_, _, _, _, _, _, _, _)
ComputeFromLastWins(context, row_a, row_b, rules, compare_fields, all_changed, i, output_columns) ==
    IF i > Len(rules) THEN [raised |-> FALSE, cols |-> output_columns]
    ELSE IF rules[i].rule_type \in {"ROW_MATCH", "FORMULA_RULE"}
    THEN ComputeFromLastWins(context, row_a, row_b, rules, compare_fields, all_changed,
                             i + 1, output_columns)
    ELSE LET r == _evaluate_rule(rules[i], row_a, row_b, context, compare_fields,
                                 all_changed)
         IN  IF r.st = "raise" THEN [raised |-> TRUE, cols |-> <<>>]
             ELSE ComputeFromLastWins(context, row_a, row_b, rules, compare_fields,
                      all_changed, i + 1,
                      IF r.st = "fire"
                      THEN [c \in DOMAIN output_columns \cup {ColName(rules[i])} |->
                               IF c = ColName(rules[i])
                               THEN [label |-> r.label, color |-> r.color]
                               ELSE output_columns[c]]
                      ELSE output_columns)

\* the loop of _compute_output_columns from rule i on
RECURSIVE ComputeFrom(_, _, _, _, _, _, _, _)
ComputeFrom(context, row_a, row_b, rules, compare_fields, all_changed, i, output_columns) ==
    IF i > Len(rules) THEN [raised |-> FALSE, cols |-> output_columns]
    ELSE IF rules[i].rule_type \in {"ROW_MATCH", "FORMULA_RULE"}
    THEN ComputeFrom(context, row_a, row_b, rules, compare_fields, all_changed, i + 1,
                     output_columns)
    ELSE IF ColName(rules[i]) \in DOMAIN output_columns
    THEN ComputeFrom(context, row_a, row_b, rules, compare_fields, all_changed, i + 1,
                     output_columns)
    ELSE LET r == _evaluate_rule(rules[i], row_a, row_b, context, compare_fields,
                                 all_changed)
         IN  IF r.st = "raise" THEN [raised |-> TRUE, cols |-> <<>>]
             ELSE ComputeFrom(context, row_a, row_b, rules, compare_fields, all_changed,
                      i + 1,
                      IF r.st = "fire"
                      THEN output_columns
                               @@ (ColName(rules[i]) :> [label |-> r.label, color |-> r.color])
                      ELSE output_columns)

\* [raised, cols]: cols maps a column name to its [label, color]
_compute_output_columns(context, row_a, row_b, rules, compare_fields, all_changed) ==
    ComputeFrom(context, row_a, row_b, rules, compare_fields, all_changed, 1, <<>>)

\* _build_output_row: {f: row.get(f)} over the key, display and compare fields
_build_output_row(row, kf, cf, df) ==
    [f \in Range(kf) \cup Range(df) \cup Range(cf) |-> RowGet(row, f)]

CountRows(rows, Sources, withChanges) ==
    Cardinality({k \in 1..Len(rows) :
                    /\ rows[k].source \in Sources
                    /\ withChanges \in {"any", BoolStr(rows[k].changed_fields # <<>>)}})

\* a summary that counts every matched row as a change
BuildSummaryAllChanged(rows) ==
    [total |-> Len(rows),
     additions |-> CountRows(rows, {"B"}, "any"),
     deletions |-> CountRows(rows, {"A"}, "any"),
     changes |-> CountRows(rows, {"matched"}, "any"),
     unchanged |-> CountRows(rows, {"matched"}, "F")]

_build_summary(rows) ==
    [total |-> Len(rows),
     additions |-> CountRows(rows, {"B"}, "any"),
     deletions |-> CountRows(rows, {"A"}, "any"),
     changes |-> CountRows(rows, {"matched"}, "T"),
     unchanged |-> CountRows(rows, {"matched"}, "F")]

-----------------------------------------------------------------------------
(* rule_executor.execute_template, one action per stretch of code and per   *)
(* loop iteration.  A result row carries, besides the fields of the code,   *)
(* the ghost field "of": the A and B positions it was built from (0: none). *)

\* a choice in which the last ROW_MATCH rule decides
LastRowMatch(rules, i) ==
    LET at == {k \in i..Len(rules) : rules[k].rule_type = "ROW_MATCH"}
    IN  IF at = {} THEN [method |-> "exact", fuzzy_threshold |-> <<4, 5>>]
        ELSE LET k == CHOOSE k \in at : \A h \in at : h <= k
             IN  [method |-> DictGet(rules[k].config, "method", "exact"),
                  fuzzy_threshold |-> DictGet(rules[k].config, "fuzzy_threshold", <<4, 5>>)]

\* lines 47-54: the first ROW_MATCH rule decides method and threshold
RECURSIVE FirstRowMatch(_, _)
FirstRowMatch(rules, i) ==
    IF i > Len(rules) THEN [method |-> "exact", fuzzy_threshold |-> <<4, 5>>]
    ELSE IF rules[i].rule_type = "ROW_MATCH"
    THEN [method |-> DictGet(rules[i].config, "method", "exact"),
          fuzzy_threshold |-> DictGet(rules[i].config, "fuzzy_threshold", <<4, 5>>)]
    ELSE FirstRowMatch(rules, i + 1)

\* lines 56-60: the matcher call
MatchRows(tmpl, ra, rb) ==
    LET rm == FirstRowMatch(tmpl.rules, 1)
        K == tmpl.column_mapping.unique_key
    IN  IF rm.method = "fuzzy" THEN fuzzy_match(ra, rb, K, rm.fuzzy_threshold)
        ELSE [raised |-> FALSE] @@ exact_match(ra, rb, K)

\* the loop and position that run next, from loop `phase` at position i on
Advance(phase, i, ob, oa, mp) ==
    IF phase = 1 /\ i <= Len(ob) THEN <<"exec_only_b", i>>
    ELSE IF phase <= 1 /\ oa # <<>> THEN <<"exec_only_a", 1>>
    ELSE IF phase = 2 /\ i <= Len(oa) THEN <<"exec_only_a", i>>
    ELSE IF phase <= 2 /\ mp # <<>> THEN <<"exec_matched", 1>>
    ELSE IF phase = 3 /\ i <= Len(mp) THEN <<"exec_matched", i>>
    ELSE <<"exec_finish", 0>>

\* template.output_config.include_unmatched_rows: OutputConfig declares no such
\* field and from_dict sets none, so the read raises AttributeError unless the
\* caller put the attribute on the instance
HasIncludeUnmatched(tmpl) == "include_unmatched_rows" \in DOMAIN tmpl.output_config

\* a drop test that, once a run has been made, drops every row no rule fired on
DropUnmatchedOnRerun(output_cols, include_unmatched) ==
    output_cols = <<>> /\ (~include_unmatched \/ fn_out # <<>>)

\* lines 71 and 91: if not output_cols and not include_unmatched: continue
DropUnmatched(output_cols, include_unmatched) ==
    output_cols = <<>> /\ ~include_unmatched

\* a variant that leaves the columns as the rules made them
WithDefaultRemarksNone(output_cols, label, color) == output_cols

\* lines 73-74, 93-94, 115-119: if 'Remarks' not in output_cols: add the default
WithDefaultRemarks(output_cols, label, color) ==
    IF "Remarks" \in DOMAIN output_cols THEN output_cols
    ELSE output_cols @@ ("Remarks" :> [label |-> label, color |-> color])

\* lines 40-64: rows, fields, matcher, include_unmatched
ExecStart ==
    /\ pc = "exec_start"
    /\ LET m == MatchRows(template, rows_a, rows_b)
       IN  IF m.raised
           THEN /\ pc' = "exec_error" /\ exec_error' = "ValueError"
                /\ UNCHANGED <<matched_pairs, only_in_a, only_in_b, warnings, loop_i>>
           ELSE /\ matched_pairs' = m.matched_pairs
                /\ only_in_a' = m.only_in_a
                /\ only_in_b' = m.only_in_b
                /\ warnings' = m.warnings
                /\ IF ~HasIncludeUnmatched(template)
                   THEN /\ pc' = "exec_error" /\ exec_error' = "AttributeError"
                        /\ loop_i' = loop_i
                   ELSE /\ exec_error' = exec_error
                        /\ pc' = Advance(1, 1, m.only_in_b, m.only_in_a,
                                         m.matched_pairs)[1]
                        /\ loop_i' = Advance(1, 1, m.only_in_b, m.only_in_a,
                                             m.matched_pairs)[2]
    /\ UNCHANGED <<procVars, keyVars, callVars, storeVars, matchIn, fuzzyAux, template, result_rows, result>>

UnmatchedRow(row, src, cols, dflt_label, dflt_color, i, j) ==
    LET cm == template.column_mapping
        output_cols == WithDefaultRemarks(cols, dflt_label, dflt_color)
        rem == DictGet(output_cols, "Remarks", <<>>)
    IN  [data |-> _build_output_row(row, cm.unique_key, cm.compare_fields,
                                    cm.display_fields),
         source |-> src,
         output_columns |-> output_cols,
         remarks |-> DictGet(rem, "label", dflt_label),
         color |-> DictGet(rem, "color", dflt_color),
         changed_fields |-> <<>>,
         row_a |-> NoRow,
         of |-> <<i, j>>]

\* lines 67-84: one iteration of the loop over only_b
ExecOnlyB ==
    /\ pc = "exec_only_b"
    /\ LET j == only_in_b[loop_i]
           oc == _compute_output_columns("addition", NoRow, rows_b[j], template.rules,
                     template.column_mapping.compare_fields, NoChanged)
           nxt == Advance(1, loop_i + 1, only_in_b, only_in_a, matched_pairs)
       IN  IF oc.raised
           THEN /\ pc' = "exec_error" /\ exec_error' = "re.error"
                /\ UNCHANGED <<loop_i, result_rows>>
           ELSE /\ pc' = nxt[1] /\ loop_i' = nxt[2]
                /\ exec_error' = exec_error
                /\ result_rows' =
                       IF DropUnmatched(oc.cols, template.output_config.include_unmatched_rows)
                       THEN result_rows
                       ELSE Append(result_rows,
                                UnmatchedRow(rows_b[j], "B", oc.cols, <<"Addition">>,
                                             "#C6EFCE", 0, j))
    /\ UNCHANGED <<procVars, keyVars, callVars, storeVars, matchIn, matchOut, fuzzyAux, template, result>>

\* lines 87-104: one iteration of the loop over only_a
ExecOnlyA ==
    /\ pc = "exec_only_a"
    /\ LET i == only_in_a[loop_i]
           oc == _compute_output_columns("deletion", rows_a[i], NoRow, template.rules,
                     template.column_mapping.compare_fields, NoChanged)
           nxt == Advance(2, loop_i + 1, only_in_b, only_in_a, matched_pairs)
       IN  IF oc.raised
           THEN /\ pc' = "exec_error" /\ exec_error' = "re.error"
                /\ UNCHANGED <<loop_i, result_rows>>
           ELSE /\ pc' = nxt[1] /\ loop_i' = nxt[2]
                /\ exec_error' = exec_error
                /\ result_rows' =
                       IF DropUnmatched(oc.cols, template.output_config.include_unmatched_rows)
                       THEN result_rows
                       ELSE Append(result_rows,
                                UnmatchedRow(rows_a[i], "A", oc.cols, <<"Deletion">>,
                                             "#FFC7CE", i, 0))
    /\ UNCHANGED <<procVars, keyVars, callVars, storeVars, matchIn, matchOut, fuzzyAux, template, result>>

MatchedRow(row_a, row_b, cols, all_changed, i, j) ==
    LET cm == template.column_mapping
        output_cols ==
            IF all_changed # <<>>
            THEN WithDefaultRemarks(cols, <<"Changed">>, "#FFEB9C")
            ELSE WithDefaultRemarks(cols, <<>>, "None")
        rem == DictGet(output_cols, "Remarks", <<>>)
    IN  [data |-> _build_output_row(row_b, cm.unique_key, cm.compare_fields,
                                    cm.display_fields),
         source |-> "matched",
         output_columns |-> output_cols,
         remarks |-> DictGet(rem, "label", <<>>),
         color |-> DictGet(rem, "color", "None"),
         changed_fields |-> all_changed,
         row_a |-> _build_output_row(row_a, cm.unique_key, cm.compare_fields,
                                     cm.display_fields),
         of |-> <<i, j>>]

\* lines 107-130: one iteration of the loop over matched_pairs
ExecMatched ==
    /\ pc = "exec_matched"
    /\ LET i == matched_pairs[loop_i][1]
           j == matched_pairs[loop_i][2]
           all_changed == fields_changed(rows_a[i], rows_b[j],
                                         template.column_mapping.compare_fields)
           oc == _compute_output_columns("matched", rows_a[i], rows_b[j],
                     template.rules, template.column_mapping.compare_fields,
                     Changed(all_changed))
           nxt == Advance(3, loop_i + 1, only_in_b, only_in_a, matched_pairs)
       IN  IF oc.raised
           THEN /\ pc' = "exec_error" /\ exec_error' = "re.error"
                /\ UNCHANGED <<loop_i, result_rows>>
           ELSE /\ pc' = nxt[1] /\ loop_i' = nxt[2]
                /\ exec_error' = exec_error
                /\ result_rows' =
                       Append(result_rows,
                              MatchedRow(rows_a[i], rows_b[j], oc.cols, all_changed, i, j))
    /\ UNCHANGED <<procVars, keyVars, callVars, storeVars, matchIn, matchOut, fuzzyAux, template, result>>

\* lines 132-136: the summary and the return
ExecFinish ==
    /\ pc = "exec_finish"
    /\ result' = [returned |-> TRUE, rows |-> result_rows,
                  summary |-> _build_summary(result_rows), warnings |-> warnings]
    /\ pc' = "exec_done"
    /\ UNCHANGED <<procVars, keyVars, callVars, storeVars, matchVars, template, result_rows, exec_error>>

-----------------------------------------------------------------------------
(* SpecExec: execute_template on a template and two record sets *)

ExecRecords ==
    {[id |-> Text(<<"1">>), c1 |-> Text(<<"x">>)],
     [id |-> Text(<<"1">>), c1 |-> None],
     [id |-> Text(<<"2">>), c1 |-> Text(<<"x">>)]}

IsEmptyC1 == [field |-> "c1", operator |-> "is_empty"]
BadPattern == [field |-> "c1", operator |-> "changed_to_pattern", value |-> Text(<<"(">>)]

ExecRules ==
    {[rule_type |-> "PRESENCE_RULE", output_column |-> "",
      config |-> [only_in_file_b |-> [outcome_label |-> Lit("New"), color |-> "green"],
                  only_in_file_a |-> [outcome_label |-> Lit("Gone"), color |-> "red"]]],
     [rule_type |-> "CHANGE_RULE", output_column |-> "",
      config |-> [fields |-> <<"c1">>, outcome_label |-> Lit("Edited"),
                  color |-> "amber"]],
     [rule_type |-> "CONDITION_RULE", output_column |-> "Remarks",
      config |-> [conditions |-> <<>>, condition_join |-> "AND",
                  outcome_label |-> Lit("Always"), color |-> "blue"]],
     [rule_type |-> "CONDITION_RULE", output_column |-> "Flag",
      config |-> [conditions |-> <<IsEmptyC1>>, outcome_label |-> Lit("Blank")]],
     [rule_type |-> "CONDITION_RULE", output_column |-> "",
      config |-> [conditions |-> <<BadPattern>>, condition_join |-> "OR",
                  outcome_label |-> Lit("Pattern")]],
     [rule_type |-> "ROW_MATCH", output_column |-> "",
      config |-> [method |-> "fuzzy"]],
     [rule_type |-> "FORMULA_RULE", output_column |-> "",
      config |-> [column_actions |-> <<>>]]}

\* OutputConfig as from_dict builds it, and with the attribute set by the caller
OutputConfigs ==
    {[add_remarks_column |-> TRUE],
     [add_remarks_column |-> TRUE, include_unmatched_rows |-> TRUE],
     [add_remarks_column |-> TRUE, include_unmatched_rows |-> FALSE]}

ExecTemplates ==
    {[column_mapping |-> [unique_key |-> <<"id">>, compare_fields |-> cf,
                          display_fields |-> <<>>],
      rules |-> rs, output_config |-> oc] :
        cf \in {<<>>, <<"c1">>}, rs \in SeqsUpTo(ExecRules, MaxRules),
        oc \in OutputConfigs}

InitExec ==
    /\ pc = "exec_start"
    /\ IdleKey /\ IdleProc /\ IdleCall
    /\ template \in ExecTemplates
    /\ rows_a \in SeqsUpTo(ExecRecords, MaxExecRows)
    /\ rows_b \in SeqsUpTo(ExecRecords, MaxExecRows)
    /\ key_fields = template.column_mapping.unique_key
    /\ threshold = <<0, 1>>
    /\ matched_pairs = <<>> /\ only_in_a = <<>> /\ only_in_b = <<>>
    /\ warnings = [duplicate_keys_a |-> 0, duplicate_keys_b |-> 0]
    /\ used_b = {} /\ loop_i = 0 /\ fz_log = <<>>
    /\ result_rows = <<>> /\ exec_error = "none" /\ result = NoResult

NextExec == ExecStart \/ ExecOnlyB \/ ExecOnlyA \/ ExecMatched \/ ExecFinish
SpecExec == InitExec /\ [][NextExec]_vars

-----------------------------------------------------------------------------
(* SpecDup: execute_template on record sets that repeat keys, under the     *)
(* exact and the fuzzy matcher.  The output config carries the              *)
(* include_unmatched_rows attribute, so that the run gets past line 64.     *)

MaxDupRows == 2

DupRules ==
    {[rule_type |-> "ROW_MATCH", output_column |-> "", config |-> [method |-> "exact"]],
     [rule_type |-> "ROW_MATCH", output_column |-> "", config |-> [method |-> "fuzzy"]],
     [rule_type |-> "PRESENCE_RULE", output_column |-> "",
      config |-> [only_in_file_b |-> [outcome_label |-> Lit("New"), color |-> "green"]]]}

DupTemplates ==
    {[column_mapping |-> [unique_key |-> <<"id">>, compare_fields |-> <<"c1">>,
                          display_fields |-> <<>>],
      rules |-> rs,
      output_config |-> [add_remarks_column |-> TRUE, include_unmatched_rows |-> iu]] :
        rs \in SeqsUpTo(DupRules, 1), iu \in BOOLEAN}

InitDup ==
    /\ pc = "exec_start"
    /\ IdleKey /\ IdleProc /\ IdleCall
    /\ template \in DupTemplates
    /\ rows_a \in SeqsUpTo(ExecRecords, MaxDupRows)
    /\ rows_b \in SeqsUpTo(ExecRecords, MaxDupRows)
    /\ key_fields = template.column_mapping.unique_key
    /\ threshold = <<0, 1>>
    /\ matched_pairs = <<>> /\ only_in_a = <<>> /\ only_in_b = <<>>
    /\ warnings = [duplicate_keys_a |-> 0, duplicate_keys_b |-> 0]
    /\ used_b = {} /\ loop_i = 0 /\ fz_log = <<>>
    /\ result_rows = <<>> /\ exec_error = "none" /\ result = NoResult

SpecDup == InitDup /\ [][NextExec]_vars

\* the number of records that repeat the composite key of an earlier record
DupCount(rows) ==
    Cardinality({i \in 1..Len(rows) :
        \E h \in 1..(i - 1) : make_key(rows[h], key_fields) = make_key(rows[i], key_fields)})

\* C12: when n > 0 records of A (of B) repeat the key of an earlier record,
\* execute completes and its result carries warnings.duplicate_keys_a = n
\* (duplicate_keys_b = n), under the exact and under the fuzzy matcher; the
\* entry is absent (0) when the side has no duplicate.
C12_DuplicateKeysWarned ==
    pc \in {"exec_done", "exec_error"} =>
        /\ pc = "exec_done"
        /\ result.warnings.duplicate_keys_a = DupCount(rows_a)
        /\ result.warnings.duplicate_keys_b = DupCount(rows_b)

\* the rows a result row was built from, its context and its changed set
RowA(row) == IF row.of[1] = 0 THEN NoRow ELSE rows_a[row.of[1]]
RowB(row) == IF row.of[2] = 0 THEN NoRow ELSE rows_b[row.of[2]]
ContextOf(row) ==
    CASE row.source = "B" -> "addition" [] row.source = "A" -> "deletion"
      [] OTHER -> "matched"
ChangedOf(row) ==
    IF row.source = "matched" THEN Changed(row.changed_fields) ELSE NoChanged

\* what rule k of the template gives when evaluated alone on the row
Outcome(k, row) ==
    _evaluate_rule(template.rules[k], RowA(row), RowB(row), ContextOf(row),
                   template.column_mapping.compare_fields, ChangedOf(row))

\* the annotation rules that target column c and fire for the row
FiringFor(c, row) ==
    {k \in 1..Len(template.rules) :
        /\ template.rules[k].rule_type \notin {"ROW_MATCH", "FORMULA_RULE"}
        /\ (IF template.rules[k].output_column = "" THEN "Remarks"
            ELSE template.rules[k].output_column) = c
        /\ Outcome(k, row).st = "fire"}

OutputColumnNames == {"Remarks", "Flag"}

\* C4: when rules targeting one output column fire for a row, the column's
\* label and color are those of the first of them in template order.
C4_FirstFiringRuleWins ==
    \A n \in 1..Len(result_rows) : \A c \in OutputColumnNames :
        LET row == result_rows[n]
            firing == FiringFor(c, row)
        IN  firing # {} =>
                LET first == CHOOSE k \in firing : \A h \in firing : k <= h
                IN  /\ c \in DOMAIN row.output_columns
                    /\ row.output_columns[c].label = Outcome(first, row).label
                    /\ row.output_columns[c].color = Outcome(first, row).color

\* C4 witness: a returned row for which two rules targeting the same column
\* both fire with different labels, the column carrying the first one's.
C4_Witness ==
    /\ result.returned
    /\ \E n \in 1..Len(result.rows) : \E c \in OutputColumnNames :
           \E k, h \in FiringFor(c, result.rows[n]) :
               /\ k < h
               /\ Outcome(k, result.rows[n]).label # Outcome(h, result.rows[n]).label
               /\ result.rows[n].output_columns[c].label = Outcome(k, result.rows[n]).label

\* the rows of the outcome of execute: none when an exception left it
EmittedFor(of) ==
    {n \in 1..Len(result.rows) : result.returned /\ result.rows[n].of = of}

UnmatchedAsClaimed(row, of, context, dflt_label, dflt_color) ==
    LET oc == _compute_output_columns(context,
                  IF context = "deletion" THEN row ELSE NoRow,
                  IF context = "addition" THEN row ELSE NoRow,
                  template.rules, template.column_mapping.compare_fields, NoChanged)
        flag_false ==
            /\ "include_unmatched_rows" \in DOMAIN template.output_config
            /\ ~template.output_config.include_unmatched_rows
    IN  IF ~oc.raised /\ oc.cols = <<>> /\ flag_false
        THEN EmittedFor(of) = {}
        ELSE /\ Cardinality(EmittedFor(of)) = 1
             /\ \A n \in EmittedFor(of) :
                    (~oc.raised /\ "Remarks" \notin DOMAIN oc.cols) =>
                        result.rows[n].output_columns["Remarks"] =
                            [label |-> dflt_label, color |-> dflt_color]

\* C5: for each record only in B (only in A) execute emits no row exactly
\* when no rule produced an output column for it and the template's
\* include_unmatched_rows flag is false, and otherwise exactly one row, with
\* the default Remarks entry when no rule supplied Remarks.
C5_UnmatchedRowsFollowFlag ==
    pc \in {"exec_done", "exec_error"} =>
        /\ \A k \in 1..Len(only_in_b) :
               UnmatchedAsClaimed(rows_b[only_in_b[k]], <<0, only_in_b[k]>>,
                                  "addition", <<"Addition">>, "#C6EFCE")
        /\ \A k \in 1..Len(only_in_a) :
               UnmatchedAsClaimed(rows_a[only_in_a[k]], <<only_in_a[k], 0>>,
                                  "deletion", <<"Deletion">>, "#FFC7CE")

\* C8: every row execute builds, and so every row of its result, has a
\* "Remarks" entry in output_columns.
C8_EveryRowHasRemarks ==
    /\ \A n \in 1..Len(result_rows) : "Remarks" \in DOMAIN result_rows[n].output_columns
    /\ \A n \in 1..Len(result.rows) : "Remarks" \in DOMAIN result.rows[n].output_columns

\* C8 witness: a returned result with a row for which no rule fired on
\* Remarks while a rule fired on another column, Remarks holding the default.
C8_Witness ==
    /\ result.returned
    /\ \E n \in 1..Len(result.rows) :
           /\ FiringFor("Remarks", result.rows[n]) = {}
           /\ FiringFor("Flag", result.rows[n]) # {}
           /\ result.rows[n].output_columns["Remarks"].label = <<"Addition">>

\* C9: the changed_fields of every result row are compare_fields of the
\* template, and a row with source A or B has none.
C9_ChangedFieldsWithinCompareFields ==
    \A n \in 1..Len(result_rows) :
        /\ Range(result_rows[n].changed_fields)
               \subseteq Range(template.column_mapping.compare_fields)
        /\ result_rows[n].source \in {"A", "B"} => result_rows[n].changed_fields = <<>>

\* C9 witness: a returned result with a matched row whose changed_fields is
\* not empty.
C9_Witness ==
    /\ result.returned
    /\ \E n \in 1..Len(result.rows) :
           /\ result.rows[n].source = "matched"
           /\ result.rows[n].changed_fields = <<"c1">>

IsAddition(row) == row.source = "B"
IsDeletion(row) == row.source = "A"
IsChange(row) == row.source = "matched" /\ row.changed_fields # <<>>
IsUnchanged(row) == row.source = "matched" /\ row.changed_fields = <<>>

\* C15: in every result of execute, summary.total is the number of rows
\* emitted, additions the number with source B, deletions the number with
\* source A, changes the number of matched rows with changed fields and
\* unchanged the number of matched rows without, and total is their sum.
C15_SummaryCountsRows ==
    result.returned =>
        /\ result.summary.total = Len(result.rows)
        /\ result.summary.additions = Len(SelectSeq(result.rows, IsAddition))
        /\ result.summary.deletions = Len(SelectSeq(result.rows, IsDeletion))
        /\ result.summary.changes = Len(SelectSeq(result.rows, IsChange))
        /\ result.summary.unchanged = Len(SelectSeq(result.rows, IsUnchanged))
        /\ result.summary.total =
               result.summary.additions + result.summary.deletions
                   + result.summary.changes + result.summary.unchanged

\* C15 witness: a returned result of three rows: an addition, a changed pair
\* and an unchanged pair.
C15_Witness ==
    /\ result.returned
    /\ Len(result.rows) = 3
    /\ result.summary = [total |-> 3, additions |-> 1, deletions |-> 0,
                         changes |-> 1, unchanged |-> 1]

-----------------------------------------------------------------------------
(* SpecChange: execute_template under CHANGE_RULEs whose field lists are    *)
(* empty, inside and outside compare_fields                                 *)

ChangeRule(col, fields, word) ==
    [rule_type |-> "CHANGE_RULE", output_column |-> col,
     config |-> [fields |-> fields, outcome_label |-> Lit(word), color |-> word]]

ChangeRules ==
    {ChangeRule("", <<"c1">>, "Edited"),
     ChangeRule("", <<>>, "Any"),
     ChangeRule("Flag", <<"id", "c1">>, "Either"),
     ChangeRule("Flag", <<"id">>, "Key"),
     [rule_type |-> "CONDITION_RULE", output_column |-> "",
      config |-> [conditions |-> <<IsEmptyC1>>, outcome_label |-> Lit("Blank")]]}

ChangeTemplates ==
    {[column_mapping |-> [unique_key |-> <<"id">>, compare_fields |-> cf,
                          display_fields |-> <<>>],
      rules |-> rs,
      output_config |-> [add_remarks_column |-> TRUE, include_unmatched_rows |-> iu]] :
        cf \in {<<>>, <<"c1">>, <<"id", "c1">>},
        rs \in SeqsUpTo(ChangeRules, MaxRules), iu \in BOOLEAN}

InitChange ==
    /\ pc = "exec_start"
    /\ IdleKey /\ IdleProc /\ IdleCall
    /\ template \in ChangeTemplates
    /\ rows_a \in SeqsUpTo(ExecRecords, MaxExecRows)
    /\ rows_b \in SeqsUpTo(ExecRecords, MaxExecRows)
    /\ key_fields = template.column_mapping.unique_key
    /\ threshold = <<0, 1>>
    /\ matched_pairs = <<>> /\ only_in_a = <<>> /\ only_in_b = <<>>
    /\ warnings = [duplicate_keys_a |-> 0, duplicate_keys_b |-> 0]
    /\ used_b = {} /\ loop_i = 0 /\ fz_log = <<>>
    /\ result_rows = <<>> /\ exec_error = "none" /\ result = NoResult

SpecChange == InitChange /\ [][NextExec]_vars

\* field f has different normalized values in the two records of the pair
Differs(row, f) == Normalize(RowGet(RowA(row), f)) # Normalize(RowGet(RowB(row), f))

\* the pair's changed set: the compare_fields whose normalized values differ
ChangedSet(row) ==
    {f \in Range(template.column_mapping.compare_fields) : Differs(row, f)}

\* the CHANGE_RULEs that no earlier annotation rule can pre-empt on their column
LeadingChangeRules ==
    {k \in 1..Len(template.rules) :
        /\ template.rules[k].rule_type = "CHANGE_RULE"
        /\ \A h \in 1..(k - 1) :
               \/ template.rules[h].rule_type \in {"ROW_MATCH", "FORMULA_RULE"}
               \/ ColName(template.rules[h]) # ColName(template.rules[k])}

\* rule k fired for the row: its column carries the rule's label and color
ShowsRule(k, row) ==
    LET rule == template.rules[k]
    IN  /\ ColName(rule) \in DOMAIN row.output_columns
        /\ row.output_columns[ColName(rule)] =
               [label |-> <<rule.config.outcome_label[1].w>>, color |-> rule.config.color]

MatchedRows == {n \in 1..Len(result_rows) : result_rows[n].source = "matched"}

\* the list a CHANGE_RULE checks: its fields, or compare_fields when it has none
CheckedFields(k) ==
    IF template.rules[k].config.fields # <<>>
    THEN Range(template.rules[k].config.fields)
    ELSE Range(template.column_mapping.compare_fields)

\* C13 as stated: on a matched pair a CHANGE_RULE fires if and only if its
\* configured fields intersect the pair's changed set; with an empty field
\* list it never fires.
C13_ChangeRuleFiresIffFieldsIntersect ==
    \A n \in MatchedRows : \A k \in LeadingChangeRules :
        ShowsRule(k, result_rows[n])
            <=> Range(template.rules[k].config.fields) \cap ChangedSet(result_rows[n]) # {}

\* C13 amended: on a matched pair a CHANGE_RULE fires if and only if the
\* fields it checks (its configured fields, or all compare_fields when the
\* configured list is empty) intersect the pair's changed set.
C13_ChangeRuleFiresIffCheckedIntersect ==
    \A n \in MatchedRows : \A k \in LeadingChangeRules :
        ShowsRule(k, result_rows[n])
            <=> CheckedFields(k) \cap ChangedSet(result_rows[n]) # {}

\* C13 witness: a returned result with a matched pair on which one
\* CHANGE_RULE with configured fields fired and another, whose configured
\* fields miss the changed set, did not.
C13_Witness ==
    /\ result.returned
    /\ \E n \in MatchedRows : \E k, h \in LeadingChangeRules :
           /\ template.rules[k].config.fields = <<"c1">>
           /\ ShowsRule(k, result_rows[n])
           /\ template.rules[h].config.fields = <<"id">>
           /\ ~ShowsRule(h, result_rows[n])

\* C14 as stated: on a matched pair a CHANGE_RULE fires whenever a field
\* listed in its fields has different normalized values in A and B, also
\* when that field is not one of the template's compare_fields.
C14_ChangeRuleFiresOnAnyListedField ==
    \A n \in MatchedRows : \A k \in LeadingChangeRules :
        (\E f \in Range(template.rules[k].config.fields) : Differs(result_rows[n], f))
            => ShowsRule(k, result_rows[n])

\* C14 amended: on a matched pair a CHANGE_RULE fires whenever a field that
\* is listed in its fields and is one of the template's compare_fields has
\* different normalized values in A and B.
C14_ChangeRuleFiresOnListedCompareField ==
    \A n \in MatchedRows : \A k \in LeadingChangeRules :
        (\E f \in Range(template.rules[k].config.fields)
                      \cap Range(template.column_mapping.compare_fields) :
             Differs(result_rows[n], f))
            => ShowsRule(k, result_rows[n])

\* C14 witness: a returned result with a matched pair whose c1 differs, c1
\* being a compare field, and a CHANGE_RULE listing id and c1 that fired.
C14_Witness ==
    /\ result.returned
    /\ template.column_mapping.compare_fields = <<"c1">>
    /\ \E n \in MatchedRows : \E k \in LeadingChangeRules :
           /\ template.rules[k].config.fields = <<"id", "c1">>
           /\ Differs(result_rows[n], "c1")
           /\ ShowsRule(k, result_rows[n])

-----------------------------------------------------------------------------
(* rule_schema constants, rule_validator.validate_rule and                  *)
(* validate_template, ComparisonTemplate.from_dict.                         *)
(* A rule or template as submitted is a mapping that holds exactly the keys *)
(* the JSON gave.  An error is [rule, code, at]: the rule's position in the *)
(* template (0 outside a template), what is wrong, and the position of the  *)
(* condition it is about (0 when none).                                     *)

VALID_RULE_TYPES ==
    {"PRESENCE_RULE", "CHANGE_RULE", "CONDITION_RULE", "ROW_MATCH", "FORMULA_RULE"}
VALID_OPERATORS ==
    {"is_empty", "is_not_empty", "equals", "not_equals", "contains", "starts_with",
     "changed_from_empty", "changed_to_empty", "date_is_before", "date_is_after",
     "changed_from_pattern", "changed_to_pattern"}
VALID_FORMULA_ACTIONS == {"compare_value", "compare_expression", "skip"}
VALID_MATCH_METHODS == {"exact", "fuzzy"}

Err(code, at) == <<[rule |-> 0, code |-> code, at |-> at]>>

\* a JSON value that is not a list, where the code tests isinstance(x, list)
NotAList == <<"<not a list>">>

\* a JSON text where the code expects a mapping: a membership test on it is
\* a substring test (false for every key here), .get and .items do not exist
NotAMapping == [not_a_mapping |-> TRUE]
IsMapping(x) == "not_a_mapping" \notin DOMAIN x

\* a JSON text that float() rejects, such as "high", where the code expects a
\* number
NotANumber == <<0, 0>>

\* the errors of the conditions from position i on
RECURSIVE ConditionErrors(_, _)
ConditionErrors(conditions, i) ==
    IF i > Len(conditions) THEN <<>>
    ELSE (IF "field" \notin DOMAIN conditions[i] THEN Err("condition missing field", i)
          ELSE <<>>)
         \o (IF DictGet(conditions[i], "operator", "<none>") \notin VALID_OPERATORS
             THEN Err("condition invalid operator", i) ELSE <<>>)
         \o ConditionErrors(conditions, i + 1)

\* the errors validate_rule collects once the rule_type is known to be valid
RuleConfigErrors(rt, config) ==
    CASE rt = "PRESENCE_RULE" ->
            (IF "only_in_file_b" \in DOMAIN config
                /\ "outcome_label" \notin DOMAIN config.only_in_file_b
             THEN Err("only_in_file_b missing outcome_label", 0) ELSE <<>>)
            \o (IF "only_in_file_a" \in DOMAIN config
                   /\ "outcome_label" \notin DOMAIN config.only_in_file_a
                THEN Err("only_in_file_a missing outcome_label", 0) ELSE <<>>)
      [] rt = "CHANGE_RULE" ->
            IF "fields" \notin DOMAIN config \/ config.fields = NotAList
            THEN Err("CHANGE_RULE must have fields (list)", 0) ELSE <<>>
      [] rt = "CONDITION_RULE" ->
            (IF "conditions" \notin DOMAIN config
             THEN Err("CONDITION_RULE must have conditions", 0)
             ELSE ConditionErrors(config.conditions, 1))
            \o (IF "outcome_label" \notin DOMAIN config
                THEN Err("CONDITION_RULE missing outcome_label", 0) ELSE <<>>)
            \o (IF DictGet(config, "condition_join", "AND") \notin {"AND", "OR"}
                THEN Err("condition_join must be AND or OR", 0) ELSE <<>>)
      [] rt = "ROW_MATCH" ->
            (IF DictGet(config, "method", "exact") \notin VALID_MATCH_METHODS
             THEN Err("ROW_MATCH.method invalid", 0) ELSE <<>>)
            \o (LET thr == DictGet(config, "fuzzy_threshold", <<4, 5>>)
                IN  IF ~(thr[1] >= 0 /\ thr[1] <= thr[2])
                    THEN Err("fuzzy_threshold must be between 0.0 and 1.0", 0)
                    ELSE <<>>)
      [] rt = "FORMULA_RULE" ->
            LET actions == DictGet(config, "column_actions", <<>>)
            IN  IF \E col \in DOMAIN actions : actions[col] \notin VALID_FORMULA_ACTIONS
                THEN Err("column_actions invalid action", 0) ELSE <<>>
      [] OTHER -> <<>>

\* an exception leaves validate_rule once the rule_type is known to be valid:
\* cond.get (line 46), config.get (lines 51, 56, 64), float(threshold)
\* (line 60), actions.items() (line 65)
RuleConfigRaises(rt, config) ==
    CASE rt = "CONDITION_RULE" ->
            \/ ~IsMapping(config)
            \/ /\ "conditions" \in DOMAIN config
               /\ \E i \in 1..Len(config.conditions) : ~IsMapping(config.conditions[i])
      [] rt = "ROW_MATCH" ->
            \/ ~IsMapping(config)
            \/ DictGet(config, "fuzzy_threshold", <<4, 5>>) = NotANumber
      [] rt = "FORMULA_RULE" ->
            \/ ~IsMapping(config)
            \/ ~IsMapping(DictGet(config, "column_actions", <<>>))
      [] OTHER -> FALSE

Raised == [ok |-> FALSE, errors |-> <<>>, raised |-> TRUE]
Returned(errors) == [ok |-> errors = <<>>, errors |-> errors, raised |-> FALSE]

\* validate_rule(rule): [ok, errors, raised]; raised when an exception leaves
\* the call instead of a result
validate_rule(rule) ==
    IF "rule_type" \notin DOMAIN rule THEN Returned(Err("Missing rule_type", 0))
    ELSE IF rule.rule_type \notin VALID_RULE_TYPES THEN Returned(Err("Unknown rule_type", 0))
    ELSE IF RuleConfigRaises(rule.rule_type, DictGet(rule, "config", <<>>)) THEN Raised
    ELSE Returned(RuleConfigErrors(rule.rule_type, DictGet(rule, "config", <<>>)))

\* the errors of the rules from position i on, each named by its rule's position
RECURSIVE RulesErrors(_, _)
RulesErrors(rules, i) ==
    IF i > Len(rules) THEN <<>>
    ELSE LET v == validate_rule(rules[i])
         IN  (IF ~v.ok
              THEN [k \in 1..Len(v.errors) |-> [v.errors[k] EXCEPT !.rule = i]]
              ELSE <<>>) \o RulesErrors(rules, i + 1)

\* validate_template(template): [ok, errors, raised]
validate_template(tmpl) ==
    LET missing == {k \in {"template_name", "sheet_config", "column_mapping", "rules"} :
                       k \notin DOMAIN tmpl}
    IN  IF missing # {}
        THEN Returned([k \in 1..Cardinality(missing) |->
                          [rule |-> 0, code |-> "Missing required key", at |-> 0]])
        ELSE IF \E i \in 1..Len(tmpl.rules) : validate_rule(tmpl.rules[i]).raised
        THEN Raised
        ELSE LET errors ==
                     (IF "file_a_sheet" \notin DOMAIN tmpl.sheet_config
                      THEN Err("sheet_config missing file_a_sheet", 0) ELSE <<>>)
                     \o (IF "unique_key" \notin DOMAIN tmpl.column_mapping
                            \/ tmpl.column_mapping.unique_key = <<>>
                         THEN Err("column_mapping must have non-empty unique_key", 0)
                         ELSE <<>>)
                     \o RulesErrors(tmpl.rules, 1)
             IN  Returned(errors)

\* Rule.from_dict
RuleFromDict(d) ==
    [rule_type |-> d.rule_type,
     config |-> DictGet(d, "config", <<>>),
     output_column |-> DictGet(d, "output_column", "")]

\* ComparisonTemplate.from_dict: OutputConfig gets its seven declared fields
\* (the model keeps add_remarks_column); any other key of output_config is dropped
from_dict(d) ==
    [template_name |-> d.template_name,
     sheet_config |-> [file_a_sheet |-> d.sheet_config.file_a_sheet],
     column_mapping |->
         [unique_key |-> d.column_mapping.unique_key,
          compare_fields |-> DictGet(d.column_mapping, "compare_fields", <<>>),
          display_fields |-> DictGet(d.column_mapping, "display_fields", <<>>)],
     rules |-> [k \in 1..Len(d.rules) |-> RuleFromDict(d.rules[k])],
     output_config |->
         [add_remarks_column |->
              DictGet(DictGet(d, "output_config", <<>>), "add_remarks_column", TRUE)]]

\* C7: for a template that validate_template accepts, a failure while
\* evaluating a condition on a row (such as a pattern that is no regular
\* expression) never aborts execute.
C7_ConditionFailureNeverAborts ==
    (\A k \in 1..Len(template.rules) : validate_rule(template.rules[k]).ok)
        => ~(pc = "exec_error" /\ exec_error = "re.error")

-----------------------------------------------------------------------------
(* routes.process and rule_extractor.parse_rule_from_ai *)

Respond(status, body) == [status |-> status, body |-> body]

\* process, lines 271-285: the body, its session id and template, the session
ProcReceive ==
    /\ pc = "proc_start"
    /\ IF ~request.has_body
       THEN /\ response' = Respond(400, "Request body required (JSON)")
            /\ pc' = "proc_done"
       ELSE IF request.session_id = "" \/ DOMAIN request.template = {}
       THEN /\ response' = Respond(400, "session_id and template are required")
            /\ pc' = "proc_done"
       ELSE IF request.session_id \notin DOMAIN sessions
       THEN /\ response' = Respond(404, "Session expired. Please re-upload files.")
            /\ pc' = "proc_done"
       ELSE /\ response' = response
            /\ pc' = "proc_validate"
    /\ UNCHANGED <<keyVars, callVars, storeVars, matchVars, execVars, request, sessions, calls,
                   ai_response, ai_result>>

\* process, lines 287-299: validate_template, from_dict, the session's files
ProcValidate ==
    /\ pc = "proc_validate"
    /\ LET v == validate_template(request.template)
       IN  IF v.raised
           THEN /\ calls' = Append(calls, "validate_template:raised")
                /\ response' = Respond(500, "Internal Server Error")
                /\ pc' = "proc_done"
                /\ template' = template
           ELSE IF ~v.ok
           THEN /\ calls' = Append(calls, "validate_template:rejected")
                /\ response' = Respond(400, "Invalid template")
                /\ pc' = "proc_done"
                /\ template' = template
           ELSE /\ calls' = Append(calls, "validate_template:accepted")
                /\ template' = from_dict(request.template)
                /\ IF "file_a" \notin DOMAIN sessions[request.session_id].temp_paths
                   THEN /\ response' = Respond(400, "No files available in session")
                        /\ pc' = "proc_done"
                   ELSE /\ response' = response
                        /\ pc' = "proc_read"
    /\ UNCHANGED <<keyVars, callVars, storeVars, matchVars, result_rows, exec_error, result, request,
                   sessions, ai_response, ai_result>>

\* process, lines 301-306: both sheets are read, then execute_template is
\* called (its lines 40-45 take the rows and the key fields); a sheet the
\* workbook does not have makes read_excel raise, caught at line 307
ProcRead ==
    /\ pc = "proc_read"
    /\ LET paths == sessions[request.session_id].temp_paths
           file_a == paths.file_a
           file_b == DictGet(paths, "file_b", paths.file_a)
           sheet == template.sheet_config.file_a_sheet
       IN  IF sheet \notin DOMAIN file_a \/ sheet \notin DOMAIN file_b
           THEN /\ response' = Respond(500, "Processing failed")
                /\ pc' = "proc_done"
                /\ UNCHANGED <<rows_a, rows_b, key_fields, calls>>
           ELSE /\ calls' = Append(calls, "execute_template")
                /\ rows_a' = file_a[sheet]
                /\ rows_b' = file_b[sheet]
                /\ key_fields' = template.column_mapping.unique_key
                /\ pc' = "exec_start"
                /\ response' = response
    /\ UNCHANGED <<keyVars, callVars, storeVars, threshold, matchOut, fuzzyAux, loop_i, execVars,
                   request, sessions, ai_response, ai_result>>

\* process, lines 307-309: an exception out of execute_template
ProcExecuteFailed ==
    /\ pc = "exec_error"
    /\ calls # <<>>
    /\ response' = Respond(500, "Processing failed")
    /\ pc' = "proc_done"
    /\ UNCHANGED <<keyVars, callVars, storeVars, matchVars, execVars, request, sessions, calls,
                   ai_response, ai_result>>

\* process, lines 311-362: the preview or the report of a result.  No request
\* gets here: execute_template raises at its line 64 for every template that
\* from_dict built, so NextProcess does not list this step.
ProcRespond ==
    /\ pc = "exec_done"
    /\ calls # <<>>
    /\ response' = Respond(200, IF request.dry_run THEN "preview" ELSE "download")
    /\ pc' = "proc_done"
    /\ UNCHANGED <<keyVars, callVars, storeVars, matchVars, execVars, request, sessions, calls,
                   ai_response, ai_result>>

AiReturn(ok, rule, error) ==
    [returned |-> TRUE, ok |-> ok, rule |-> rule, error |-> error]

\* a parse that hands the rule back without validating it
parse_rule_from_ai_unchecked(resp) ==
    IF resp.json = "none" THEN AiReturn(FALSE, <<>>, "No valid JSON found")
    ELSE IF resp.json = "malformed" THEN AiReturn(FALSE, <<>>, "not valid JSON")
    ELSE AiReturn(TRUE, resp.rule, "none")

\* parse_rule_from_ai.  resp.json is what extract_json_from_response and
\* json.loads make of the text: no JSON object in it, text in braces that
\* does not parse, or an object.  (The extracted text always starts with a
\* brace, so what parses is an object and the isinstance test never fails.)
parse_rule_from_ai(resp) ==
    IF resp.json = "none" THEN AiReturn(FALSE, <<>>, "No valid JSON found")
    ELSE IF resp.json = "malformed" THEN AiReturn(FALSE, <<>>, "not valid JSON")
    ELSE IF validate_rule(resp.rule).raised
    THEN [returned |-> FALSE, ok |-> FALSE, rule |-> <<>>, error |-> "exception"]
    ELSE IF ~validate_rule(resp.rule).ok
    THEN AiReturn(FALSE, <<>>, "AI generated an invalid rule")
    ELSE AiReturn(TRUE, resp.rule, "none")

ParseRuleFromAi ==
    /\ pc = "ai_start"
    /\ ai_result' = parse_rule_from_ai(ai_response)
    /\ pc' = "ai_done"
    /\ UNCHANGED <<keyVars, callVars, storeVars, matchVars, execVars, request, sessions, response,
                   calls, ai_response>>

-----------------------------------------------------------------------------
(* SpecProcess: one process request, or one parse of an AI answer *)

ValidRuleDicts ==
    {[rule_type |-> "PRESENCE_RULE",
      config |-> [only_in_file_b |-> [outcome_label |-> Lit("New")]]],
     [rule_type |-> "CONDITION_RULE", output_column |-> "Flag",
      config |-> [conditions |-> <<BadPattern>>, condition_join |-> "OR",
                  outcome_label |-> Lit("Pattern")]],
     [rule_type |-> "ROW_MATCH", config |-> [method |-> "fuzzy"]]}

InvalidRuleDicts ==
    {[config |-> [fields |-> <<"c1">>]],
     [rule_type |-> "BOGUS", config |-> <<>>],
     [rule_type |-> "CHANGE_RULE", config |-> [outcome_label |-> Lit("Edited")]],
     [rule_type |-> "CONDITION_RULE",
      config |-> [conditions |-> <<[field |-> "c1", operator |-> "matches"]>>,
                  outcome_label |-> Lit("Odd")]],
     [rule_type |-> "ROW_MATCH", config |-> [method |-> "soundex"]]}

RuleDicts == ValidRuleDicts \cup InvalidRuleDicts

TemplateDict(sheet, unique_key, rules) ==
    [template_name |-> "t",
     sheet_config |-> [file_a_sheet |-> sheet],
     column_mapping |-> [unique_key |-> unique_key, compare_fields |-> <<"c1">>],
     rules |-> rules]

TemplateDicts ==
    {TemplateDict(sheet, <<"id">>, rs) :
        sheet \in {"Sheet1", "Other"}, rs \in SeqsUpTo(RuleDicts, MaxRules)}
    \cup {TemplateDict("Sheet1", <<>>, <<>>),
          [template_name |-> "t", sheet_config |-> [file_a_sheet |-> "Sheet1"],
           column_mapping |-> [unique_key |-> <<"id">>]],
          [template_name |-> "t", sheet_config |-> [header_row |-> 0],
           column_mapping |-> [unique_key |-> <<"id">>], rules |-> <<>>]}

Requests ==
    {NoRequest}
    \cup {[has_body |-> TRUE, session_id |-> sid, template |-> t, dry_run |-> dr] :
             sid \in {"", "s1", "gone"}, t \in TemplateDicts \cup {<<>>},
             dr \in BOOLEAN}

WorkbookA == "Sheet1" :> <<[id |-> Text(<<"1">>), c1 |-> Text(<<"x">>)]>>
WorkbookB == "Sheet1" :> <<[id |-> Text(<<"1">>), c1 |-> None]>>

SessionStores ==
    {"s1" :> [temp_paths |-> paths] :
        paths \in {<<>>, [file_a |-> WorkbookA],
                   [file_a |-> WorkbookA, file_b |-> WorkbookB]}}

AiResponses ==
    {[json |-> "none", rule |-> <<>>], [json |-> "malformed", rule |-> <<>>]}
    \cup {[json |-> "object", rule |-> r] : r \in RuleDicts}

InitProcess ==
    /\ pc \in {"proc_start", "ai_start"}
    /\ IdleKey /\ IdleMatch /\ IdleExec /\ IdleCall /\ IdleStore
    /\ key_fields = <<>>
    /\ response = NoResponse /\ calls = <<>> /\ ai_result = NoAiResult
    /\ IF pc = "proc_start"
       THEN request \in Requests /\ sessions \in SessionStores /\ ai_response = <<>>
       ELSE request = NoRequest /\ sessions = <<>> /\ ai_response \in AiResponses

NextProcess ==
    ProcReceive \/ ProcValidate \/ ProcRead \/ ExecStart \/ ProcExecuteFailed
        \/ ParseRuleFromAi
SpecProcess == InitProcess /\ [][NextProcess]_vars

Called(what) == \E k \in 1..Len(calls) : calls[k] = what

\* C6: validation precedes execution.  In a process request execute_template
\* is called only after validate_template accepted the submitted template; a
\* rejected template is answered with an error and execute_template is never
\* called for it; a rule parsed from an AI answer is handed back only when
\* validate_rule accepts it.
C6_ValidationPrecedesExecution ==
    /\ \A k \in 1..Len(calls) :
           calls[k] = "execute_template" =>
               /\ validate_template(request.template).ok
               /\ \E m \in 1..(k - 1) : calls[m] = "validate_template:accepted"
    /\ pc \in {"exec_start", "exec_error"} => Called("execute_template")
    /\ (calls # <<>> /\ ~validate_template(request.template).ok) =>
           /\ calls = <<"validate_template:rejected">>
           /\ pc = "proc_done"
           /\ response = Respond(400, "Invalid template")
    /\ (ai_result.returned /\ ai_result.error = "none") =>
           /\ ai_result.rule = ai_response.rule
           /\ validate_rule(ai_result.rule).ok

\* a request whose template was accepted and then executed, answered after
\* execute_template raised
C6_Witness ==
    /\ pc = "proc_done"
    /\ calls = <<"validate_template:accepted", "execute_template">>
    /\ response.status = 500

-----------------------------------------------------------------------------
(* SpecConds: one call of evaluate_conditions *)

MaxConds == 2

CondCells ==
    {Absent, None, Text(<<>>), Text(<<" ">>), Text(<<"x">>), Float(<<"0", ".", "0">>)}
CondRecords == {[id |-> Text(<<i>>), c1 |-> c] : i \in {"1", "2"}, c \in CondCells}

JoinedConditions ==
    {IsEmptyC1, [field |-> "c1", operator |-> "is_not_empty"],
     [field |-> "c1", operator |-> "equals", value |-> Text(<<"x">>)], BadPattern}

InitConds ==
    /\ pc = "call"
    /\ IdleKey /\ IdleMatch /\ IdleExec /\ IdleProc
    /\ key_fields = <<>>
    /\ fn_in \in [row_a : {NoRow, [id |-> Text(<<"1">>), c1 |-> Text(<<"x">>)]},
                  row_b : {NoRow} \cup {r \in CondRecords : r.id = Text(<<"1">>)},
                  conditions : SeqsUpTo(JoinedConditions, MaxConds),
                  join : {"AND", "OR"}]
    /\ fn_in.row_a # NoRow \/ fn_in.row_b # NoRow
    /\ fn_out = <<>>

EvaluateConditions ==
    /\ pc = "call"
    /\ fn_out' = evaluate_conditions(fn_in.row_a, fn_in.row_b, fn_in.conditions,
                                     fn_in.join)
    /\ pc' = "returned"
    /\ UNCHANGED <<keyVars, matchVars, execVars, procVars, fn_in, storeVars>>

SpecConds == InitConds /\ [][EvaluateConditions]_vars

\* condition i of the call, evaluated alone, is true
CondTrue(i) == evaluate_condition(fn_in.row_a, fn_in.row_b, fn_in.conditions[i]) = "T"

\* C16: evaluate_conditions with join AND is true exactly when every
\* condition of the list evaluates true, and with join OR exactly when at
\* least one does; on an empty list it is true with AND and false with OR.
C16_JoinIsAllOrAny ==
    pc = "returned" =>
        /\ fn_in.join = "AND" =>
               (fn_out = "T" <=> \A i \in 1..Len(fn_in.conditions) : CondTrue(i))
        /\ fn_in.join = "OR" =>
               (fn_out = "T" <=> \E i \in 1..Len(fn_in.conditions) : CondTrue(i))
        /\ fn_in.conditions = <<>> => fn_out = BoolStr(fn_in.join = "AND")

-----------------------------------------------------------------------------
(* SpecCond: one call of evaluate_condition with a changed_to_empty or      *)
(* changed_from_empty condition                                             *)

EmptinessConditions ==
    {[field |-> "c1", operator |-> op] : op \in {"changed_to_empty", "changed_from_empty"}}

InitCond ==
    /\ pc = "call"
    /\ IdleKey /\ IdleMatch /\ IdleExec /\ IdleProc
    /\ key_fields = <<>>
    /\ fn_in \in [row_a : {NoRow} \cup CondRecords, row_b : {NoRow} \cup CondRecords,
                  condition : EmptinessConditions]
    /\ fn_in.row_a # NoRow \/ fn_in.row_b # NoRow
    /\ fn_out = <<>>

EvaluateCondition ==
    /\ pc = "call"
    /\ fn_out' = evaluate_condition(fn_in.row_a, fn_in.row_b, fn_in.condition)
    /\ pc' = "returned"
    /\ UNCHANGED <<keyVars, matchVars, execVars, procVars, fn_in, storeVars>>

SpecCond == InitCond /\ [][EvaluateCondition]_vars

\* the field c1 of a record is blank: no record, no value, null, or a text of
\* spaces only
BlankC1(rec) ==
    \/ rec = NoRow
    \/ rec.c1.t \in {"absent", "none"}
    \/ rec.c1.t = "str" /\ \A i \in 1..Len(rec.c1.s) : rec.c1.s[i] = " "

CurrentRecord == IF fn_in.row_b # NoRow THEN fn_in.row_b ELSE fn_in.row_a
PreviousRecord == fn_in.row_a

\* the record with its other field set to v
WithId(rec, v) == IF rec = NoRow THEN NoRow ELSE [rec EXCEPT !.id = v]

\* C17: the current record is B when present and otherwise A, the previous
\* record is A; changed_to_empty is true exactly when the field is non-blank
\* in the previous and blank in the current record, changed_from_empty
\* exactly when it is blank in the previous and non-blank in the current
\* record; no other field of either record changes the outcome.
C17_EmptinessTransitions ==
    pc = "returned" =>
        /\ fn_in.condition.operator = "changed_to_empty" =>
               (fn_out = "T" <=> ~BlankC1(PreviousRecord) /\ BlankC1(CurrentRecord))
        /\ fn_in.condition.operator = "changed_from_empty" =>
               (fn_out = "T" <=> BlankC1(PreviousRecord) /\ ~BlankC1(CurrentRecord))
        /\ fn_out \in {"T", "F"}
        /\ \A v, w \in {Text(<<"7">>), None, Absent} :
               evaluate_condition(WithId(fn_in.row_a, v), WithId(fn_in.row_b, w),
                                  fn_in.condition) = fn_out

\* C17 witness: changed_to_empty returned true for a pair whose c1 is "x" in
\* A and a space in B.
C17_Witness ==
    /\ pc = "returned"
    /\ fn_in.condition.operator = "changed_to_empty"
    /\ fn_in.row_a # NoRow /\ fn_in.row_b # NoRow
    /\ fn_in.row_a.c1 = Text(<<"x">>) /\ fn_in.row_b.c1 = Text(<<" ">>)
    /\ fn_out = "T"

-----------------------------------------------------------------------------
(* SpecLabel: one call of resolve_outcome_label                             *)

MaxTokens == 2

LabelCells ==
    {Absent, None, Text(<<>>), Text(<<"x">>), Text(<<" ", "x">>),
     Float(<<"3", ".", "0">>), Float(<<"2", ".", "5">>), Float(<<"nan">>)}
LabelRecords == {[id |-> Text(<<i>>), c1 |-> c] : i \in {"1", "2"}, c \in LabelCells}
LabelTokens == {Lit("Was")[1], Ph("c1")[1], Ph("id")[1]}

InitLabel ==
    /\ pc = "call"
    /\ IdleKey /\ IdleMatch /\ IdleExec /\ IdleProc
    /\ key_fields = <<>>
    /\ fn_in \in [label_template : SeqsUpTo(LabelTokens, MaxTokens), row : LabelRecords]
    /\ fn_out = <<>>

ResolveOutcomeLabel ==
    /\ pc = "call"
    /\ fn_out' = resolve_outcome_label(fn_in.label_template, fn_in.row)
    /\ pc' = "returned"
    /\ UNCHANGED <<keyVars, matchVars, execVars, procVars, fn_in, storeVars>>

SpecLabel == InitLabel /\ [][ResolveOutcomeLabel]_vars

\* the label in which every placeholder stands for the normalized value
RECURSIVE NormalizedLabel(_, _)
NormalizedLabel(label_template, row) ==
    IF label_template = <<>> THEN <<>>
    ELSE LET tok == Head(label_template)
         IN  (IF tok.ph THEN Normalize(RowGet(row, tok.w)) ELSE <<tok.w>>)
                 \o NormalizedLabel(Tail(label_template), row)

\* C18: resolve_outcome_label replaces each {FieldName} placeholder by the
\* record's normalized value of that field, the normalization fields_changed
\* applies (null or absent gives the empty string, a whole-number float its
\* integer string, anything else its trimmed string form).
C18_LabelUsesNormalizedValue ==
    pc = "returned" => fn_out = NormalizedLabel(fn_in.label_template, fn_in.row)

-----------------------------------------------------------------------------
(* SpecValidate: one call of validate_rule or of validate_template          *)

MaxTemplateRules == 2

MalformedRuleDicts ==
    {[rule_type |-> rt, config |-> NotAMapping] : rt \in VALID_RULE_TYPES}
    \cup {[rule_type |-> "CONDITION_RULE",
           config |-> [conditions |-> <<IsEmptyC1, NotAMapping>>,
                       outcome_label |-> Lit("Blank")]],
          [rule_type |-> "ROW_MATCH", config |-> [fuzzy_threshold |-> NotANumber]],
          [rule_type |-> "FORMULA_RULE", config |-> [column_actions |-> NotAMapping]]}

WellFormedRuleDicts ==
    RuleDicts
    \cup {[rule_type |-> "ROW_MATCH", config |-> [fuzzy_threshold |-> <<3, 2>>]],
          [rule_type |-> "CONDITION_RULE",
           config |-> [conditions |-> <<[operator |-> "equals"]>>, condition_join |-> "XOR"]],
          [rule_type |-> "FORMULA_RULE", config |-> [column_actions |-> [c1 |-> "sum"]]],
          [rule_type |-> "CONDITION_RULE",
           config |-> [conditions |-> <<[field |-> "c1", operator |-> "equals"]>>,
                       outcome_label |-> Lit("Same")]],
          [rule_type |-> "PRESENCE_RULE",
           config |-> [only_in_file_a |-> [color |-> "red"],
                       only_in_file_b |-> [color |-> "green"]]]}

SubmittedRules == WellFormedRuleDicts \cup MalformedRuleDicts

SubmittedTemplates ==
    {TemplateDict("Sheet1", uk, rs) :
        uk \in {<<"id">>, <<>>}, rs \in SeqsUpTo(SubmittedRules, MaxTemplateRules)}
    \cup {[sheet_config |-> [file_a_sheet |-> "Sheet1"],
           column_mapping |-> [unique_key |-> <<"id">>], rules |-> rs] :
             rs \in SeqsUpTo(InvalidRuleDicts, 1)}
    \cup {[template_name |-> "t", sheet_config |-> sc, column_mapping |-> cm,
           rules |-> rs] :
             sc \in {[header_row |-> 0], [file_a_sheet |-> "Sheet1"]},
             cm \in {[compare_fields |-> <<"c1">>], [unique_key |-> <<"id">>]},
             rs \in SeqsUpTo(InvalidRuleDicts, 1)}
    \cup {[template_name |-> "t"], <<>>}

InitValidate ==
    /\ pc \in {"validate_rule", "validate_template"}
    /\ IdleKey /\ IdleMatch /\ IdleExec /\ IdleProc
    /\ key_fields = <<>>
    /\ fn_in \in IF pc = "validate_rule" THEN SubmittedRules ELSE SubmittedTemplates
    /\ fn_out = <<>>

ValidateRule ==
    /\ pc = "validate_rule"
    /\ fn_out' = validate_rule(fn_in)
    /\ pc' = "rule_validated"
    /\ UNCHANGED <<keyVars, matchVars, execVars, procVars, fn_in, storeVars>>

ValidateTemplate ==
    /\ pc = "validate_template"
    /\ fn_out' = validate_template(fn_in)
    /\ pc' = "template_validated"
    /\ UNCHANGED <<keyVars, matchVars, execVars, procVars, fn_in, storeVars>>

NextValidate == ValidateRule \/ ValidateTemplate

SpecValidate == InitValidate /\ [][NextValidate]_vars

\* the submitted input holds one of the malformed rules
HoldsMalformedRule ==
    \/ pc = "rule_validated" /\ fn_in \in MalformedRuleDicts
    \/ /\ pc = "template_validated" /\ "rules" \in DOMAIN fn_in
       /\ \E i \in 1..Len(fn_in.rules) : fn_in.rules[i] \in MalformedRuleDicts

\* C19: validate_rule and validate_template never raise; for a rule or
\* template with a config that is not a mapping, a condition that is not a
\* mapping or a fuzzy_threshold that is not a number they return false with a
\* non-empty error list.
C19_MalformedInputIsAnErrorValue ==
    pc \in {"rule_validated", "template_validated"} =>
        /\ ~fn_out.raised
        /\ HoldsMalformedRule => ~fn_out.ok /\ fn_out.errors # <<>>

\* validate_rule returned false for the rule
Rejects(rule) == ~validate_rule(rule).raised /\ ~validate_rule(rule).ok

SubmittedRulesOf(tmpl) == IF "rules" \in DOMAIN tmpl THEN tmpl.rules ELSE <<>>

\* the template lacks what validate_template requires of it
LacksRequired(tmpl) ==
    \/ "template_name" \notin DOMAIN tmpl
    \/ "sheet_config" \notin DOMAIN tmpl
    \/ "file_a_sheet" \notin DOMAIN tmpl.sheet_config
    \/ "column_mapping" \notin DOMAIN tmpl
    \/ "unique_key" \notin DOMAIN tmpl.column_mapping
    \/ tmpl.column_mapping.unique_key = <<>>

\* the errors of rule i as validate_template is to report them
PrefixedErrors(rules, i) ==
    LET errs == validate_rule(rules[i]).errors
    IN  [k \in 1..Len(errs) |-> [errs[k] EXCEPT !.rule = i]]

\* C20: validate_template rejects a template that lacks template_name, lacks
\* sheet_config.file_a_sheet, has a missing or empty column_mapping.unique_key
\* or holds a rule that validate_rule rejects; the errors of every invalid
\* rule are all in the reported list, each under the index of its rule.
C20_TemplateErrorsPerRule ==
    pc = "template_validated" =>
        LET rules == SubmittedRulesOf(fn_in)
            reported(i) == SelectSeq(fn_out.errors, LAMBDA e : e.rule = i)
        IN  /\ (LacksRequired(fn_in) \/ \E i \in 1..Len(rules) : Rejects(rules[i])) =>
                   ~fn_out.raised /\ ~fn_out.ok /\ fn_out.errors # <<>>
            /\ \A i \in 1..Len(rules) :
                   Rejects(rules[i]) => reported(i) = PrefixedErrors(rules, i)

\* the operators that need no value
EMPTINESS_CHECKS == {"is_empty", "is_not_empty"}

\* the conditions of the CONDITION_RULE rules of a submitted template
ConditionsOf(rule) ==
    IF "rule_type" \in DOMAIN rule /\ rule.rule_type = "CONDITION_RULE"
       /\ "config" \in DOMAIN rule /\ "conditions" \in DOMAIN rule.config
    THEN rule.config.conditions ELSE <<>>

\* C21: a condition's value is required unless its operator is an emptiness
\* check: no template that validate_template accepts holds a CONDITION_RULE
\* condition with another operator and no value.
C21_ValueRequiredUnlessEmptinessCheck ==
    (pc = "template_validated" /\ fn_out.ok) =>
        \A i \in 1..Len(SubmittedRulesOf(fn_in)) :
            LET conds == ConditionsOf(fn_in.rules[i])
            IN  \A k \in 1..Len(conds) :
                    DictGet(conds[k], "operator", "<none>") \notin EMPTINESS_CHECKS
                        => "value" \in DOMAIN conds[k]

-----------------------------------------------------------------------------
(* SpecRerun: execute_template called twice on the same template and the    *)
(* same record sets; fn_out keeps what the first call gave                  *)

RerunRules ==
    {r \in ExecRules :
        \/ r.rule_type \in {"PRESENCE_RULE", "CHANGE_RULE", "ROW_MATCH"}
        \/ r.rule_type = "CONDITION_RULE" /\ r.output_column = "Flag"}

RerunTemplates ==
    {[column_mapping |-> [unique_key |-> <<"id">>, compare_fields |-> <<"c1">>,
                          display_fields |-> <<>>],
      rules |-> rs, output_config |-> oc] :
        rs \in SeqsUpTo(RerunRules, MaxRules), oc \in OutputConfigs}

InitRerun ==
    /\ pc = "exec_start"
    /\ IdleKey /\ IdleProc /\ IdleCall
    /\ template \in RerunTemplates
    /\ rows_a \in SeqsUpTo(ExecRecords, MaxDupRows)
    /\ rows_b \in SeqsUpTo(ExecRecords, MaxDupRows)
    /\ key_fields = template.column_mapping.unique_key
    /\ threshold = <<0, 1>>
    /\ matched_pairs = <<>> /\ only_in_a = <<>> /\ only_in_b = <<>>
    /\ warnings = [duplicate_keys_a |-> 0, duplicate_keys_b |-> 0]
    /\ used_b = {} /\ loop_i = 0 /\ fz_log = <<>>
    /\ result_rows = <<>> /\ exec_error = "none" /\ result = NoResult

\* the caller keeps what the first call returned (or the exception it raised)
\* and calls execute_template again with the same arguments
Rerun ==
    /\ pc \in {"exec_done", "exec_error"}
    /\ fn_out = <<>>
    /\ fn_out' = [result |-> result, exec_error |-> exec_error]
    /\ pc' = "exec_start"
    /\ matched_pairs' = <<>> /\ only_in_a' = <<>> /\ only_in_b' = <<>>
    /\ warnings' = [duplicate_keys_a |-> 0, duplicate_keys_b |-> 0]
    /\ loop_i' = 0
    /\ result_rows' = <<>> /\ exec_error' = "none" /\ result' = NoResult
    /\ UNCHANGED <<procVars, keyVars, matchIn, fuzzyAux, template, fn_in, storeVars>>

NextRerun == NextExec \/ Rerun
SpecRerun == InitRerun /\ [][NextRerun]_vars

SecondRunOver == pc \in {"exec_done", "exec_error"} /\ fn_out # <<>>

-----------------------------------------------------------------------------
(* SpecFields: fields_changed called on two records in both orders          *)

MaxFields == 2

FieldLists == SeqsUpTo({"id", "c1", "c2"}, MaxFields)

InitFields ==
    /\ pc = "call"
    /\ IdleKey /\ IdleMatch /\ IdleExec /\ IdleProc
    /\ key_fields = <<>>
    /\ fn_in \in [row_a : LabelRecords, row_b : LabelRecords, fields : FieldLists]
    /\ fn_out = <<>>

FieldsChangedBothWays ==
    /\ pc = "call"
    /\ fn_out' = [ab |-> fields_changed(fn_in.row_a, fn_in.row_b, fn_in.fields),
                  ba |-> fields_changed(fn_in.row_b, fn_in.row_a, fn_in.fields)]
    /\ pc' = "returned"
    /\ UNCHANGED <<keyVars, matchVars, execVars, procVars, fn_in, storeVars>>

SpecFields == InitFields /\ [][FieldsChangedBothWays]_vars

\* C23: fields_changed(a, b, F) equals fields_changed(b, a, F): the same
\* fields in the same order, for all records a, b and every field list F.
C23_FieldsChangedSymmetric ==
    pc = "returned" => fn_out.ab = fn_out.ba

\* C23 witness: two records that differ in both listed fields, one of them
\* without a value for c1; both orders report c1 then id.
C23_Witness ==
    /\ pc = "returned"
    /\ fn_in.fields = <<"c1", "id">>
    /\ fn_in.row_a.c1 = None /\ fn_in.row_b.c1 = Text(<<"x">>)
    /\ fn_out.ab = <<"c1", "id">> /\ fn_out.ba = <<"c1", "id">>

-----------------------------------------------------------------------------
(* SpecSelect: execute_template on templates with none, one or two          *)
(* ROW_MATCH rules, on records whose keys are alike but not equal           *)

SelectRecords ==
    {[id |-> Text(i), c1 |-> Text(<<"x">>)] :
        i \in {<<"a", "b">>, <<"a", "b", "c">>, <<"a", "c">>}}

SelectRules ==
    {[rule_type |-> "ROW_MATCH", output_column |-> "", config |-> c] :
        c \in {[method |-> "fuzzy", fuzzy_threshold |-> <<1, 2>>], [method |-> "fuzzy"],
               [method |-> "exact"], [fuzzy_threshold |-> <<1, 2>>]}}
    \cup {[rule_type |-> "PRESENCE_RULE", output_column |-> "",
           config |-> [only_in_file_b |-> [outcome_label |-> Lit("New"), color |-> "green"]]]}

SelectTemplates ==
    {[column_mapping |-> [unique_key |-> <<"id">>, compare_fields |-> <<"c1">>,
                          display_fields |-> <<>>],
      rules |-> rs,
      output_config |-> [add_remarks_column |-> TRUE, include_unmatched_rows |-> TRUE]] :
        rs \in SeqsUpTo(SelectRules, MaxRules)}

InitSelect ==
    /\ pc = "exec_start"
    /\ IdleKey /\ IdleProc /\ IdleCall
    /\ template \in SelectTemplates
    /\ rows_a \in SeqsUpTo(SelectRecords, MaxDupRows)
    /\ rows_b \in SeqsUpTo(SelectRecords, MaxDupRows)
    /\ key_fields = template.column_mapping.unique_key
    /\ threshold = <<0, 1>>
    /\ matched_pairs = <<>> /\ only_in_a = <<>> /\ only_in_b = <<>>
    /\ warnings = [duplicate_keys_a |-> 0, duplicate_keys_b |-> 0]
    /\ used_b = {} /\ loop_i = 0 /\ fz_log = <<>>
    /\ result_rows = <<>> /\ exec_error = "none" /\ result = NoResult

SpecSelect == InitSelect /\ [][NextExec]_vars

RowMatchPositions == {k \in 1..Len(template.rules) : template.rules[k].rule_type = "ROW_MATCH"}

\* what the claim lets decide: the ROW_MATCH rule of lowest position, or the
\* exact matcher when the template has none
ClaimedMatch ==
    IF RowMatchPositions = {} THEN exact_match(rows_a, rows_b, key_fields)
    ELSE LET k == CHOOSE k \in RowMatchPositions : \A h \in RowMatchPositions : k <= h
             cfg == template.rules[k].config
         IN  IF "method" \in DOMAIN cfg /\ cfg.method = "fuzzy"
             THEN fuzzy_match(rows_a, rows_b, key_fields,
                              IF "fuzzy_threshold" \in DOMAIN cfg THEN cfg.fuzzy_threshold
                              ELSE <<4, 5>>)
             ELSE exact_match(rows_a, rows_b, key_fields)

\* C25: execute selects the matcher from the first ROW_MATCH rule in
\* template order only: its method and fuzzy_threshold are used, every later
\* ROW_MATCH rule is ignored, and a template without ROW_MATCH rule is matched
\* with the exact matcher.
C25_FirstRowMatchDecides ==
    pc = "exec_done" =>
        /\ matched_pairs = ClaimedMatch.matched_pairs
        /\ only_in_a = ClaimedMatch.only_in_a
        /\ only_in_b = ClaimedMatch.only_in_b

\* C25 witness: a fuzzy rule of threshold 0.5 followed by an exact rule; the
\* keys ab and abc (score 0.8) were paired, and the run returned.
C25_Witness ==
    /\ pc = "exec_done"
    /\ Len(template.rules) = 2
    /\ template.rules[1].config = [method |-> "fuzzy", fuzzy_threshold |-> <<1, 2>>]
    /\ template.rules[2].config = [method |-> "exact"]
    /\ Len(rows_a) = 1 /\ rows_a[1].id = Text(<<"a", "b">>)
    /\ Len(rows_b) = 1 /\ rows_b[1].id = Text(<<"a", "b", "c">>)
    /\ matched_pairs = <<<<1, 1>>>>

-----------------------------------------------------------------------------
(* PRESENCE_RULE on matched pairs, on the runs of SpecExec *)

WithoutPresence(rules) == SelectSeq(rules, LAMBDA r : r.rule_type # "PRESENCE_RULE")

\* the output columns of a matched row under the template's rules other than
\* its PRESENCE_RULE rules
ColumnsWithoutPresence(row) ==
    LET oc == _compute_output_columns("matched", RowA(row), RowB(row),
                  WithoutPresence(template.rules), template.column_mapping.compare_fields,
                  Changed(row.changed_fields))
    IN  IF "Remarks" \in DOMAIN oc.cols THEN oc.cols
        ELSE oc.cols @@ ("Remarks" :> IF row.changed_fields # <<>>
                                      THEN [label |-> <<"Changed">>, color |-> "#FFEB9C"]
                                      ELSE [label |-> <<>>, color |-> "None"])

HasPresenceRule == \E k \in 1..Len(template.rules) : template.rules[k].rule_type = "PRESENCE_RULE"

\* C26: a PRESENCE_RULE never produces an output column for a matched row:
\* the output_columns of every matched row are those the template gives with
\* all its PRESENCE_RULE rules removed.
C26_PresenceSilentOnMatched ==
    \A k \in 1..Len(result_rows) :
        result_rows[k].source = "matched" =>
            result_rows[k].output_columns = ColumnsWithoutPresence(result_rows[k])

\* C26 witness: a finished run whose template has a PRESENCE_RULE ahead of a
\* CHANGE_RULE for the same column; the matched row of a changed pair carries
\* the CHANGE_RULE's label.
C26_Witness ==
    /\ pc = "exec_done"
    /\ Len(template.rules) = 2
    /\ template.rules[1].rule_type = "PRESENCE_RULE"
    /\ template.rules[2].rule_type = "CHANGE_RULE"
    /\ \E k \in 1..Len(result.rows) :
           /\ result.rows[k].source = "matched"
           /\ result.rows[k].output_columns.Remarks.label = <<"Edited">>

-----------------------------------------------------------------------------
(* The pairs of fuzzy_match, on the runs of SpecFuzzy *)

\* the number of positions of seq that hold x
Occurrences(seq, x) == Cardinality({k \in 1..Len(seq) : seq[k] = x})

\* C27: after every step of the greedy pass and in the result each A index
\* and each B index occurs in at most one pair; in the result every A index
\* is in exactly one pair or once in only_a, and every B index in exactly one
\* pair or once in only_b.
C27_FuzzyPairsDisjointAndPartition ==
    /\ \A p, q \in 1..Len(matched_pairs) :
           p # q => /\ matched_pairs[p][1] # matched_pairs[q][1]
                    /\ matched_pairs[p][2] # matched_pairs[q][2]
    /\ \A p \in 1..Len(matched_pairs) :
           /\ matched_pairs[p][1] \in 1..Len(rows_a)
           /\ matched_pairs[p][2] \in 1..Len(rows_b)
    /\ pc = "fuzzy_done" =>
           /\ \A i \in 1..Len(rows_a) :
                  Occurrences(only_in_a, i) = IF i \in PairedA THEN 0 ELSE 1
           /\ \A j \in 1..Len(rows_b) :
                  Occurrences(only_in_b, j) = IF j \in PairedB THEN 0 ELSE 1
           /\ Range(only_in_a) \subseteq 1..Len(rows_a)
           /\ Range(only_in_b) \subseteq 1..Len(rows_b)

\* C27 witness: a finished pass over two A records of the same key and two B
\* records, one of that key: the first A record took it, the second was
\* paired with the other B record by score.
C27_Witness ==
    /\ pc = "fuzzy_done"
    /\ Len(rows_a) = 2 /\ Len(rows_b) = 2
    /\ rows_a[1] = rows_a[2]
    /\ Len(matched_pairs) = 2
    /\ fz_log[1].exact /\ ~fz_log[2].exact

-----------------------------------------------------------------------------
(* SpecSessions: the in-memory session store of routes.py.  The cleanup     *)
(* thread, one save_template request and one process request run            *)
(* concurrently; _get_session, _set_session and the body of the cleanup     *)
(* loop each hold _sessions_lock, so each is one step.  A session is        *)
(* [created_at, user_templates, result]; analyze stores result = None.      *)

SESSION_TTL_SECONDS == 3600
MaxTtls == 2
MaxNow == MaxTtls * SESSION_TTL_SECONDS + MaxTtls

NoSession == <<>>
UploadedSession == [created_at |-> 0, user_templates |-> {}, result |-> "None"]
SessionIds == {"s1", "gone"}

InitSessions ==
    /\ pc = "serving"
    /\ IdleKey /\ IdleMatch /\ IdleExec /\ IdleCall
    /\ key_fields = <<>>
    /\ request = NoRequest /\ response = NoResponse /\ calls = <<>>
    /\ ai_response = <<>> /\ ai_result = NoAiResult
    /\ sessions = ("s1" :> UploadedSession)
    /\ now = 0
    /\ evicted = {}
    /\ threads \in [cleanup : {[pc |-> "sleeping"]},
                    save_template : {[pc |-> "start", session_id |-> sid,
                                      session |-> NoSession, status |-> 0] :
                                         sid \in SessionIds},
                    process : {[pc |-> "start", session_id |-> sid,
                                session |-> NoSession, status |-> 0] :
                                   sid \in SessionIds}]

\* time.time() moves on, by the time to live or by one second more
TimePasses ==
    /\ \E d \in {SESSION_TTL_SECONDS, SESSION_TTL_SECONDS + 1} :
           now + d <= MaxNow /\ now' = now + d
    /\ UNCHANGED <<pc, keyVars, matchVars, execVars, procVars, callVars, threads, evicted>>

\* _get_session(session_id), None when the store has no such id
GetSession(sid) == IF sid \in DOMAIN sessions THEN sessions[sid] ELSE NoSession

\* _set_session(session_id, data): {**data, 'created_at': time.time()}
SetSession(sid, data) ==
    [k \in DOMAIN sessions \cup {sid} |->
        IF k = sid THEN [data EXCEPT !.created_at = now] ELSE sessions[k]]

\* _cleanup_sessions, lines 50-67, one round under the lock: the first
\* expired session is popped and its temp files are deleted; its result is
\* None, so session.get('result', {}).get('path') raises AttributeError and
\* the thread ends
CleanupSessions ==
    /\ threads.cleanup.pc = "sleeping"
    /\ LET expired == {sid \in DOMAIN sessions :
                          now - sessions[sid].created_at > SESSION_TTL_SECONDS}
       IN  /\ expired # {}
           /\ LET sid == CHOOSE sid \in expired : TRUE
              IN  /\ sessions' = [k \in DOMAIN sessions \ {sid} |-> sessions[k]]
                  /\ evicted' = evicted \cup {sid}
                  /\ threads' = [threads EXCEPT !.cleanup.pc =
                                    IF sessions[sid].result = "None" THEN "dead"
                                    ELSE "sleeping"]
    /\ UNCHANGED <<pc, keyVars, matchVars, execVars, callVars, now, request, response,
                   calls, ai_response, ai_result>>

\* save_template, lines 438-441: the session is looked up
SaveTemplateGet ==
    /\ threads.save_template.pc = "start"
    /\ LET session == GetSession(threads.save_template.session_id)
       IN  threads' = [threads EXCEPT !.save_template =
                          IF session = NoSession
                          THEN [@ EXCEPT !.pc = "done", !.status = 404]
                          ELSE [@ EXCEPT !.pc = "got", !.session = session]]
    /\ UNCHANGED <<pc, keyVars, matchVars, execVars, procVars, callVars, now, evicted>>

\* save_template, lines 442-447: the template is put into the session the
\* request holds and the session is stored
SaveTemplateSet ==
    /\ threads.save_template.pc = "got"
    /\ LET t == threads.save_template
           session == [t.session EXCEPT !.user_templates = @ \cup {"slug"}]
       IN  /\ sessions' = SetSession(t.session_id, session)
           /\ threads' = [threads EXCEPT !.save_template =
                             [@ EXCEPT !.pc = "done", !.status = 200, !.session = session]]
    /\ UNCHANGED <<pc, keyVars, matchVars, execVars, callVars, now, evicted, request,
                   response, calls, ai_response, ai_result>>

\* process, lines 283-285: the session is looked up
ProcessGet ==
    /\ threads.process.pc = "start"
    /\ LET session == GetSession(threads.process.session_id)
       IN  threads' = [threads EXCEPT !.process =
                          IF session = NoSession
                          THEN [@ EXCEPT !.pc = "done", !.status = 404]
                          ELSE [@ EXCEPT !.pc = "got", !.session = session]]
    /\ UNCHANGED <<pc, keyVars, matchVars, execVars, procVars, callVars, now, evicted>>

\* process, lines 287-309: the template is rejected (400), the session has
\* no file (400), or reading and executing raise (500): execute_template
\* raises at its line 64 for every template from_dict builds, so the request
\* ends before the session is stored at line 344
ProcessRun ==
    /\ threads.process.pc = "got"
    /\ \E status \in {400, 500} :
           threads' = [threads EXCEPT !.process = [@ EXCEPT !.pc = "done", !.status = status]]
    /\ UNCHANGED <<pc, keyVars, matchVars, execVars, procVars, callVars, now, evicted>>

NextSessions ==
    TimePasses \/ CleanupSessions \/ SaveTemplateGet \/ SaveTemplateSet
        \/ ProcessGet \/ ProcessRun

SpecSessions == InitSessions /\ [][NextSessions]_vars

\* C28: once the cleanup thread has evicted an expired session and deleted
\* its temp files, that session id is never in the session store again,
\* whatever requests had obtained the session before the eviction.
C28_EvictedSessionStaysOut ==
    \A sid \in evicted : sid \notin DOMAIN sessions

-----------------------------------------------------------------------------
(* The order of the rows execute_template returns, on the runs of SpecDup *)

\* the loop that made the row: 1 only in B, 2 only in A, 3 matched pairs
LoopOf(row) == CASE row.source = "B" -> 1 [] row.source = "A" -> 2 [] OTHER -> 3

\* the index the row's loop runs over: the B index for a record only in B,
\* the A index otherwise
LoopIndexOf(row) == IF row.source = "B" THEN row.of[2] ELSE row.of[1]

RowsOfPair(p) ==
    {k \in 1..Len(result.rows) : result.rows[k].source = "matched" /\ result.rows[k].of = p}

\* C29: the returned rows list first the records only in B in ascending B
\* index, then the records only in A in ascending A index, then the matched
\* pairs in ascending A index; every matched pair has exactly one row.
C29_RowsInLoopOrder ==
    result.returned =>
        /\ \A k, l \in 1..Len(result.rows) :
               k < l =>
                   \/ LoopOf(result.rows[k]) < LoopOf(result.rows[l])
                   \/ /\ LoopOf(result.rows[k]) = LoopOf(result.rows[l])
                      /\ LoopIndexOf(result.rows[k]) < LoopIndexOf(result.rows[l])
        /\ \A p \in Range(matched_pairs) : Cardinality(RowsOfPair(p)) = 1
        /\ \A k \in 1..Len(result.rows) :
               CASE result.rows[k].source = "B" ->
                        result.rows[k].of[2] \in Range(only_in_b) /\ result.rows[k].of[1] = 0
                 [] result.rows[k].source = "A" ->
                        result.rows[k].of[1] \in Range(only_in_a) /\ result.rows[k].of[2] = 0
                 [] OTHER -> result.rows[k].of \in Range(matched_pairs)
        /\ template.output_config.include_unmatched_rows =>
               Len(result.rows) = Len(only_in_b) + Len(only_in_a) + Len(matched_pairs)

\* C29 witness: a returned run with a record only in B, a record only in A
\* and a matched pair: three rows in that order.
C29_Witness ==
    /\ result.returned
    /\ Len(result.rows) = 3
    /\ Len(only_in_b) = 1 /\ Len(only_in_a) = 1 /\ Len(matched_pairs) = 1
    /\ result.rows[1].source = "B" /\ result.rows[2].source = "A"
    /\ result.rows[3].source = "matched"

-----------------------------------------------------------------------------
(* SpecToEmpty: execute_template on templates whose CONDITION_RULE rules    *)
(* test changed_to_empty and changed_from_empty, on records with blank and  *)
(* non-blank fields                                                         *)

ToEmptyRecords ==
    {[id |-> Text(<<"1">>), c1 |-> Text(<<"x">>)],
     [id |-> Text(<<"1">>), c1 |-> None],
     [id |-> Text(<<"2">>), c1 |-> Text(<<"x">>)],
     [id |-> Text(<<"2">>), c1 |-> Text(<<" ">>)]}

ToEmpty(f) == [field |-> f, operator |-> "changed_to_empty"]
FromEmpty(f) == [field |-> f, operator |-> "changed_from_empty"]

ToEmptyRules ==
    {[rule_type |-> "CONDITION_RULE", output_column |-> "ToEmpty",
      config |-> [conditions |-> <<ToEmpty("c1")>>, outcome_label |-> Lit("Cleared")]],
     [rule_type |-> "CONDITION_RULE", output_column |-> "ToEmpty",
      config |-> [conditions |-> <<ToEmpty("c1"), ToEmpty("c2")>>,
                  condition_join |-> "AND", outcome_label |-> Lit("Cleared")]],
     [rule_type |-> "CONDITION_RULE", output_column |-> "FromEmpty",
      config |-> [conditions |-> <<FromEmpty("c1")>>, outcome_label |-> Lit("Filled")]],
     [rule_type |-> "CONDITION_RULE", output_column |-> "Either",
      config |-> [conditions |-> <<ToEmpty("c1"), IsEmptyC1>>, condition_join |-> "OR",
                  outcome_label |-> Lit("Blank")]],
     [rule_type |-> "CONDITION_RULE", output_column |-> "Always",
      config |-> [conditions |-> <<>>, condition_join |-> "AND",
                  outcome_label |-> Lit("Always")]]}

ToEmptyTemplates ==
    {[column_mapping |-> [unique_key |-> <<"id">>, compare_fields |-> <<"c1">>,
                          display_fields |-> <<>>],
      rules |-> rs,
      output_config |-> [add_remarks_column |-> TRUE, include_unmatched_rows |-> TRUE]] :
        rs \in SeqsUpTo(ToEmptyRules, MaxRules)}

InitToEmpty ==
    /\ pc = "exec_start"
    /\ IdleKey /\ IdleProc /\ IdleCall
    /\ template \in ToEmptyTemplates
    /\ rows_a \in SeqsUpTo(ToEmptyRecords, MaxDupRows)
    /\ rows_b \in SeqsUpTo(ToEmptyRecords, MaxDupRows)
    /\ key_fields = template.column_mapping.unique_key
    /\ threshold = <<0, 1>>
    /\ matched_pairs = <<>> /\ only_in_a = <<>> /\ only_in_b = <<>>
    /\ warnings = [duplicate_keys_a |-> 0, duplicate_keys_b |-> 0]
    /\ used_b = {} /\ loop_i = 0 /\ fz_log = <<>>
    /\ result_rows = <<>> /\ exec_error = "none" /\ result = NoResult

SpecToEmpty == InitToEmpty /\ [][NextExec]_vars

\* a CONDITION_RULE of at least one condition, all of them changed_to_empty,
\* joined by AND
OnlyToEmptyAnd(rule) ==
    /\ rule.rule_type = "CONDITION_RULE"
    /\ DictGet(rule.config, "conditions", <<>>) # <<>>
    /\ \A k \in 1..Len(rule.config.conditions) :
           rule.config.conditions[k].operator = "changed_to_empty"
    /\ DictGet(rule.config, "condition_join", "AND") = "AND"

\* C30: for a record only in A or only in B, changed_to_empty is false for
\* every field; for a record only in A changed_from_empty is false for every
\* field; and a CONDITION_RULE made only of changed_to_empty conditions joined
\* by AND, with at least one condition, does not fire on it: the row of the
\* record carries no column of such a rule.
C30_NoToEmptyOnUnmatched ==
    pc = "exec_done" =>
        \A k \in 1..Len(result.rows) :
            LET row == result.rows[k]
            IN  row.source \in {"A", "B"} =>
                    /\ \A f \in {"id", "c1", "c2"} :
                           /\ evaluate_condition(RowA(row), RowB(row), ToEmpty(f)) = "F"
                           /\ row.source = "A" =>
                                  evaluate_condition(RowA(row), RowB(row), FromEmpty(f)) = "F"
                    /\ \A h \in 1..Len(template.rules) :
                           OnlyToEmptyAnd(template.rules[h]) =>
                               _evaluate_rule(template.rules[h], RowA(row), RowB(row),
                                   ContextOf(row), template.column_mapping.compare_fields,
                                   NoChanged) = Skip
                    /\ "ToEmpty" \notin DOMAIN row.output_columns

\* C30 witness: under a template with the rule on changed_to_empty of c1, a
\* record only in A whose c1 is blank got a row without the rule's column,
\* while the rule fired on the matched pair of the same run.
C30_Witness ==
    /\ pc = "exec_done"
    /\ \E h \in 1..Len(template.rules) : OnlyToEmptyAnd(template.rules[h])
    /\ \E k, m \in 1..Len(result.rows) :
           /\ result.rows[k].source = "A"
           /\ IsEmpty(RowGet(RowA(result.rows[k]), "c1"))
           /\ "ToEmpty" \notin DOMAIN result.rows[k].output_columns
           /\ result.rows[m].source = "matched"
           /\ "ToEmpty" \in DOMAIN result.rows[m].output_columns
====
